---- MODULE Spec2Model ----
(***************************************************************************)
(* Model of the Monday.com Lakeflow connector (sources/monday/monday.py):  *)
(* the read dispatch, the page-number and token traversals, the            *)
(* activity-log (change-log) reader, the identifier extraction, the        *)
(* re-fetch by ID and the checkpoint computation.                          *)
(*                                                                         *)
(* One read_table call is a pass.  An action is one remote query of the    *)
(* pass together with everything the code does with its response up to     *)
(* the next remote query (or up to the return of the read).                *)
(***************************************************************************)
EXTENDS Integers, Sequences, FiniteSets, TLC

(***************************************************************************)
(* Program constants.                                                      *)
(***************************************************************************)
DEFAULT_PAGE_SIZE == 50
ITEMS_DEFAULT_PAGE_SIZE == 100
DISCOVER_PAGE_SIZE == 100
LOOKBACK_SECONDS == 60
LOG_BATCH_SIZE == 10
NESTED_BATCH_SIZE == 25
RAW_UNITS_PER_SECOND == 10000000

(***************************************************************************)
(* Bounds of the model.                                                    *)
(***************************************************************************)
\* remote times are multiples of TimeStep seconds, up to MaxTick steps
TimeStep == 50
MaxTick == 3
\* the largest explicit page_size option
MaxPageSize == 2
\* a page traversal is cut after this many pages (the API then answers short)
MaxPages == 3
\* a token traversal is cut after this many follow-up requests
MaxFollowUps == 2
\* the remote store holds the entities 1..MaxEntities
MaxEntities == 2
\* the remote change log holds at most this many entries
MaxLogs == 2
\* the caller chains at most this many reads
MaxPasses == 2
\* the calendar of the model starts this many days before the epoch
CalendarDays == 2
\* the largest raw count whose seconds the platform's time range holds
MaxRawUnits == 2000000000

(***************************************************************************)
(* Timestamps.  A timestamp string is modelled by the second it denotes    *)
(* and its format: "iso" is the fixed format %Y-%m-%dT%H:%M:%SZ, "frac"    *)
(* the same instant written with a fractional part (...SS.fffZ), which     *)
(* strptime rejects, "none" an absent or empty value (falsy in Python).    *)
(* Strings are compared lexicographically: by second, and for the same     *)
(* second "...SS.fffZ" < "...SSZ" because "." < "Z".                       *)
(***************************************************************************)
Iso(n) == [sec |-> n, fmt |-> "iso"]
Frac(n) == [sec |-> n, fmt |-> "frac"]
NoTs == [sec |-> 0, fmt |-> "none"]
EPOCH == Iso(0)

Truthy(t) == t.fmt # "none"

FmtRank(f) == IF f = "iso" THEN 1 ELSE 0

\* a > b on two non-empty timestamp strings
TsGreater(a, b) ==
    \/ a.sec > b.sec
    \/ a.sec = b.sec /\ FmtRank(a.fmt) > FmtRank(b.fmt)

TsGeq(a, b) == a = b \/ TsGreater(a, b)

\* datetime.min, the first instant a datetime can hold (0001-01-01T00:00:00
\* in Python), as a second of the model's calendar
DATETIME_MIN == 0 - (CalendarDays * 24 * 60 * 60)

\* datetime.strptime(timestamp, "%Y-%m-%dT%H:%M:%SZ") returns a datetime;
\* otherwise it raises ValueError (TypeError when timestamp is None)
strptime_parses(timestamp) == timestamp.fmt = "iso"

\* dt - timedelta(seconds=LOOKBACK_SECONDS) raises OverflowError when the
\* difference is before datetime.min; the except clause names ValueError and
\* TypeError only, so the OverflowError leaves _apply_lookback.  The passes
\* of this model stay within minutes of the epoch, far from datetime.min.
_apply_lookback_raises(timestamp) ==
    /\ strptime_parses(timestamp)
    /\ timestamp.sec - LOOKBACK_SECONDS < DATETIME_MIN

\* a drop of the lookback would publish the maximum itself
Mut_apply_lookback(timestamp) == timestamp

_apply_lookback(timestamp) ==
    IF strptime_parses(timestamp)
    THEN Iso(timestamp.sec - LOOKBACK_SECONDS)
    ELSE timestamp

\* {"cursor": c} if c else {}: a checkpoint is the set of its cursor values
Checkpoint(c) == IF Truthy(c) THEN {c} ELSE {}

\* start_offset.get("cursor") if start_offset else None
CursorOf(offset) == IF offset = {} THEN NoTs ELSE CHOOSE c \in offset : TRUE

Times == {k * TimeStep : k \in 0..MaxTick}

(***************************************************************************)
(* Resources and options.                                                  *)
(***************************************************************************)
SUPPORTED_TABLES ==
    {"boards", "items", "users", "workspaces", "teams", "groups", "tags",
     "updates", "activity_logs"}

\* int(table_options.get("page_size", <default>)); options.page_size is the
\* set of the given values (empty: the key is absent)
OptPageSize(opts, default) ==
    IF opts.page_size = {} THEN default ELSE CHOOSE n \in opts.page_size : TRUE

PageSizeOf(t, opts) ==
    IF t = "items"
    THEN OptPageSize(opts, ITEMS_DEFAULT_PAGE_SIZE)
    ELSE OptPageSize(opts, DEFAULT_PAGE_SIZE)

(***************************************************************************)
(* State.                                                                  *)
(***************************************************************************)
VARIABLES
    table,          \* read_table's table_name
    start_offset,   \* read_table's start_offset (a checkpoint)
    options,        \* read_table's table_options
    pc,             \* where the pass stands
    returned,       \* read_table has returned (iterator, offset) to the caller
    next_offset,    \* the offset it returned
    error,          \* the exception that left read_table or the iterator
    page_size,      \* the local page_size of the running reader
    page,           \* the page counter of the running page traversal
    board_ids,      \* the parent IDs of the pass
    board_idx,      \* 0-based index of the board or batch at hand
    token,          \* the cursor token of the running token traversal ({}: null)
    follow_ups,     \* follow-up requests of the running token traversal
    all_logs,       \* _query_activity_logs' all_logs
    changed_ids,    \* list(changed_item_ids) / list(changed_board_ids)
    fetched,        \* _fetch_items_by_ids' all_items
    max_timestamp,  \* the running maximum (max_updated_at / max_timestamp)
    records,        \* the records handed to the consumer so far
    pending,        \* records of the current batch a generator has yet to yield
    requests,       \* history: every remote query issued, in order
    responses,      \* history: the outcome of every remote query, in order
    passes,         \* the reads the caller has started
    faults,         \* remote: the ways a query of this run may fail
    account_boards, \* remote: the number of active boards of the account
    feed,           \* remote: the change log (raw entries)
    store,          \* remote: the current state of the entities, by id
    arg,            \* the argument of the helper that is called on its own
    result          \* what that helper returned

vars ==
    <<table, start_offset, options, pc, returned, next_offset, error, page_size,
      page, board_ids, board_idx, token, follow_ups, all_logs, changed_ids,
      fetched, max_timestamp, records, pending, requests, responses, passes,
      faults, account_boards, feed, store, arg, result>>

\* variables of the pass that a step of one traversal leaves alone
remoteVars == <<faults, account_boards, feed, store>>

\* a helper called on its own has no part in a pass
helperVars == <<arg, result>>

callVars == <<table, start_offset, options, passes, remoteVars, helperVars>>

(***************************************************************************)
(* Remote queries.                                                         *)
(***************************************************************************)
Request(kind, limit, pg, tok, ids, from) ==
    [kind |-> kind, limit |-> limit, page |-> pg, token |-> tok, ids |-> ids,
     from |-> from]

\* _execute_query: raise_for_status raises a transport error, an "errors"
\* list in the body raises RuntimeError, otherwise the data is returned
Faults == {"RuntimeError", "HTTPError"}

Outcomes == {"ok"} \cup faults

\* the batch sizes the model lets the API answer to a request of `limit`
BatchSizes(limit) == {k \in {0, 1, 12, limit - 1, limit} : k >= 0 /\ k <= limit}

\* a batch of k nodes with fresh ids; the first node carries updated_at u,
\* the others v (every batch of at most two nodes has this shape)
BatchNodes(k, first, u, v) ==
    [i \in 1..k |-> [id |-> first + i - 1,
                     updated_at |-> IF i = 1 THEN u ELSE v]]

UpdatedAts == {NoTs} \cup {Iso(t) : t \in Times}

\* _transform_board / _transform_item / ...: the fields the pass reads
Transform(node) == [id |-> node.id, updated_at |-> node.updated_at]

TransformAll(nodes) == [i \in 1..Len(nodes) |-> Transform(nodes[i])]

\* the non-empty updated_at / created_at values of a list of records
TruthyValues(recs, field) ==
    {recs[i][field] : i \in {j \in 1..Len(recs) : Truthy(recs[j][field])}}

\* a loop that never raised the maximum
MutMaxOver(current, recs, field) == current

\* for r in recs: if r[field] and r[field] > max: max = r[field]
\* (the loop ends with the lexicographically largest value seen)
MaxOver(current, recs, field) ==
    LET seen == {current} \cup TruthyValues(recs, field)
    IN  CHOOSE m \in seen : \A x \in seen : TsGeq(m, x)

\* a pass that swallowed the exception and ended
MutAbort(exc) ==
    /\ pc' = "done"
    /\ error' = exc

\* the propagation of an exception out of the pass
Abort(exc) ==
    /\ pc' = "aborted"
    /\ error' = exc

(***************************************************************************)
(* The change log: raw entries, conversion, extraction.                    *)
(***************************************************************************)
\* a raw created_at: a numeric string counting 10^-7 s, or anything else
RawTime(sec) == [numeric |-> TRUE, units |-> sec * RAW_UNITS_PER_SECOND + 5]
RawGarbage == [numeric |-> FALSE, units |-> 0]

\* a count too large for the platform: int(timestamp) succeeds, and the
\* division or utcfromtimestamp raises OverflowError
RawHuge == [numeric |-> TRUE, units |-> MaxRawUnits + 1]

\* the except clause names ValueError, TypeError and OSError only, so the
\* OverflowError leaves _convert_activity_timestamp
_convert_activity_timestamp_raises(timestamp) ==
    timestamp.numeric /\ timestamp.units > MaxRawUnits

\* a conversion that kept the raw count as seconds
Mut_convert_activity_timestamp(timestamp) ==
    IF timestamp.numeric THEN Iso(timestamp.units) ELSE EPOCH

\* int(timestamp) / 10_000_000 -> utcfromtimestamp -> strftime (seconds)
_convert_activity_timestamp(timestamp) ==
    IF timestamp.numeric
    THEN Iso(timestamp.units \div RAW_UNITS_PER_SECOND)
    ELSE EPOCH

\* a value of the parsed data: a JSON number, or a JSON string of digits
JsonNum(n) == [json |-> "number", v |-> n]
JsonStr(n) == [json |-> "string", v |-> n]

\* a string that spells no integer, and None (what .get gives for a null or
\* an absent key)
JsonText == [json |-> "text", v |-> 0]
JsonNull == [json |-> "null", v |-> 0]

\* if value is None: return None; try: return int(value)
\* except (ValueError, TypeError): return None       (None is the empty set)
_to_long(value) ==
    IF value.json \in {"number", "string"} THEN {value.v} ELSE {}

\* str(value): the decimal digits of a number, a string as it is.  An ID
\* string is modelled by the number it spells, so 55 and "55" both give 55.
str(value) == value.v

\* the "data" of an entry: a JSON string that parses to a mapping (shape
\* "dict", d its keys and values), or an empty / unparsable / other value
DictData(d) == [shape |-> "dict", d |-> d]
NoKeyData == DictData([event_id |-> JsonNum(0)])
\* data that is absent or empty, and data that json.loads rejects
EmptyData == [shape |-> "empty", d |-> <<>>]
InvalidData == [shape |-> "invalid", d |-> <<>>]

\* data that parses to a value that is no mapping (a list, a number, a
\* string, null): no key is found in it, or the lookup raises TypeError
OtherData == [shape |-> "other", d |-> <<>>]
\* data on which json.loads raises an error that is neither JSONDecodeError
\* nor TypeError: RecursionError for brackets nested too deep (ValueError for
\* a number of more digits than int() converts)
DeepData == [shape |-> "deep", d |-> <<>>]

\* the keys _extract_item_ids_from_logs tries, in its order
ID_KEYS == <<"pulse_id", "item_id", "id", "pulseId", "itemId">>

\* an extraction that took the last of the keys present
MutFirstKeyId(d) ==
    LET present == {i \in 1..Len(ID_KEYS) : ID_KEYS[i] \in DOMAIN d}
    IN  IF present = {} THEN {}
        ELSE {str(d[ID_KEYS[CHOOSE i \in present : \A j \in present : i >= j]])}

\* for key in ID_KEYS: if key in data: add(str(data[key])); break
FirstKeyId(d) ==
    LET present == {i \in 1..Len(ID_KEYS) : ID_KEYS[i] \in DOMAIN d}
    IN  IF present = {} THEN {}
        ELSE {str(d[ID_KEYS[CHOOSE i \in present : \A j \in present : i <= j]])}

\* a combined check that took the parent's identifier
MutCombinedKeyId(d) ==
    IF {"board_id", "pulse_id"} \subseteq DOMAIN d
    THEN {str(d["board_id"])}
    ELSE {}

\* if "board_id" in data and "pulse_id" in data: add(str(data["pulse_id"]))
CombinedKeyId(d) ==
    IF {"board_id", "pulse_id"} \subseteq DOMAIN d
    THEN {str(d["pulse_id"])}
    ELSE {}

IdsOfLog(log) ==
    IF log.entity # "pulse" THEN {}
    ELSE IF log.data.shape # "dict" THEN {}
    ELSE FirstKeyId(log.data.d) \cup CombinedKeyId(log.data.d)

\* except (json.JSONDecodeError, TypeError): continue -- any other error of
\* json.loads leaves _extract_item_ids_from_logs
_extract_item_ids_from_logs_raises(logs) ==
    \E i \in 1..Len(logs) :
        logs[i].entity = "pulse" /\ logs[i].data.shape = "deep"

\* an extraction that found nothing
Mut_extract_item_ids_from_logs(logs) == {}

_extract_item_ids_from_logs(logs) ==
    UNION {IdsOfLog(logs[i]) : i \in 1..Len(logs)}

\* an extraction that took the board named by the data, where it names one
Mut_extract_board_ids_from_logs(logs) ==
    {IF logs[i].data.shape = "dict" /\ "board_id" \in DOMAIN logs[i].data.d
     THEN str(logs[i].data.d["board_id"])
     ELSE logs[i].board_id : i \in {j \in 1..Len(logs) : logs[j].entity = "board"}}

_extract_board_ids_from_logs(logs) ==
    {logs[i].board_id : i \in {j \in 1..Len(logs) : logs[j].entity = "board"}}

\* a maximum that forgot where it started
Mut_get_max_timestamp(logs, current_max) == MaxOver(EPOCH, logs, "created_at")

_get_max_timestamp(logs, current_max) == MaxOver(current_max, logs, "created_at")

\* the entry the reader builds from a raw log of board board_id
LogEntry(log, board_id) ==
    [entity |-> log.entity, data |-> log.data,
     created_at |-> _convert_activity_timestamp(log.created_at),
     board_id |-> board_id]

\* the remote activity_logs(from: ...) of one board: the feed's entries of
\* that board created at or after `from` (an entry without a readable
\* creation time is returned whatever `from` is)
RemoteLogs(board_id, from) ==
    SelectSeq(feed, LAMBDA e :
        /\ e.board = board_id
        /\ \/ ~e.created_at.numeric
           \/ e.created_at.units \div RAW_UNITS_PER_SECOND >= from.sec)

\* the conversion of an entry of the batch raises
BatchRaises(batch_ids, from) ==
    \E k \in 1..Len(batch_ids) :
        LET raw == RemoteLogs(batch_ids[k], from)
        IN  \E i \in 1..Len(raw) :
                _convert_activity_timestamp_raises(raw[i].created_at)

\* entity_filter = None: no filter is set
NoFilter == ""

\* a reader that returned every entry it fetched
MutKeptLogs(board_id, from, entity_filter) ==
    LET raw == RemoteLogs(board_id, from)
    IN  [i \in 1..Len(raw) |-> LogEntry(raw[i], board_id)]

\* if entity_filter and entry.entity != entity_filter: continue
KeptLogs(board_id, from, entity_filter) ==
    LET raw == RemoteLogs(board_id, from)
        entries == [i \in 1..Len(raw) |-> LogEntry(raw[i], board_id)]
    IN  SelectSeq(entries, LAMBDA e :
            entity_filter = NoFilter \/ e.entity = entity_filter)

RECURSIVE LogsOfBatch(_, _, _)
\* for board in data["boards"]: for log in board["activity_logs"]: ...
LogsOfBatch(batch_ids, from, entity_filter) ==
    IF batch_ids = <<>> THEN <<>>
    ELSE KeptLogs(Head(batch_ids), from, entity_filter)
         \o LogsOfBatch(Tail(batch_ids), from, entity_filter)

EntityFilter(t) == IF t = "boards" THEN "board" ELSE "pulse"

Min(a, b) == IF a <= b THEN a ELSE b

\* the orders list(set) may give
Orders(S) ==
    {q \in [1..Cardinality(S) -> S] : \A i, j \in 1..Cardinality(S) :
                                         i # j => q[i] # q[j]}

\* a re-fetch that answered for every ID asked, deleted or not
MutStoreNodes(ids) ==
    [i \in 1..Len(ids) |-> [id |-> ids[i], updated_at |-> NoTs]]

\* the nodes the remote store returns for a query by IDs
StoreNodes(ids) ==
    LET found == SelectSeq(ids, LAMBDA x : x \in DOMAIN store /\ store[x].exists)
    IN  [i \in 1..Len(found) |->
            [id |-> found[i], updated_at |-> store[found[i]].updated_at]]

(***************************************************************************)
(* read_table and the dispatch of _read_<table>.                           *)
(***************************************************************************)
ResetLocals ==
    /\ page' = 1
    /\ board_idx' = 0
    /\ token' = {}
    /\ follow_ups' = 0
    /\ all_logs' = <<>>
    /\ changed_ids' = <<>>
    /\ fetched' = <<>>
    /\ max_timestamp' = EPOCH
    /\ records' = <<>>
    /\ pending' = <<>>
    /\ requests' = <<>>
    /\ responses' = <<>>
    /\ error' = "none"

\* the read returns (iterator, offset) to its caller
Return(offset) ==
    /\ pc' = "done"
    /\ returned' = TRUE
    /\ next_offset' = offset

\* the read goes on to its next remote query
GoOn(label) ==
    /\ pc' = label
    /\ UNCHANGED <<returned, next_offset>>

\* a dispatch that ignored the cursor would always enumerate
Mut_read_boards ==
    /\ table = "boards"
    /\ page_size' = PageSizeOf("boards", options)
    /\ board_ids' = <<>>
    /\ GoOn("boards_snapshot")

_read_boards ==
    /\ table = "boards"
    /\ page_size' = PageSizeOf("boards", options)
    /\ board_ids' = <<>>
    /\ IF ~Truthy(CursorOf(start_offset))
       THEN GoOn("boards_snapshot")
       ELSE GoOn("discover")

\* _read_items once board_ids is known: if not board_ids: return iter([]), {}
\* then the cursor decides between snapshot and incremental
ItemsDispatch(ids) ==
    IF ids = <<>> THEN Return({})
    ELSE IF ~Truthy(CursorOf(start_offset))
    THEN GoOn("items_snapshot")
    ELSE GoOn("logs")

_read_items ==
    /\ table = "items"
    /\ page_size' = PageSizeOf("items", options)
    /\ IF options.board_ids # {}
       THEN LET ids == CHOOSE q \in options.board_ids : TRUE
            IN  /\ board_ids' = ids
                /\ ItemsDispatch(ids)
       ELSE /\ board_ids' = <<>>
            /\ GoOn("discover")

\* users, workspaces, updates: return generate_records(), {} at once
LazyPagedTables == {"users", "workspaces", "updates"}

\* a reader of the paged tables that took the cursor for a checkpoint
Mut_read_paged ==
    /\ table \in LazyPagedTables
    /\ page_size' = PageSizeOf(table, options)
    /\ board_ids' = <<>>
    /\ pc' = "generate"
    /\ returned' = TRUE
    /\ next_offset' = start_offset

_read_paged ==
    /\ table \in LazyPagedTables
    /\ page_size' = PageSizeOf(table, options)
    /\ board_ids' = <<>>
    /\ pc' = "generate"
    /\ returned' = TRUE
    /\ next_offset' = {}

\* teams: one query without paging; return generate_records(), {} at once
_read_teams ==
    /\ table = "teams"
    /\ page_size' = 0
    /\ board_ids' = <<>>
    /\ pc' = "generate_teams"
    /\ returned' = TRUE
    /\ next_offset' = {}

\* groups, tags, activity_logs: nested within boards, queried in batches
NestedTables == {"groups", "tags", "activity_logs"}

\* batch_size of the generator of a nested table
NestedBatchSize(t) ==
    IF t = "activity_logs" THEN LOG_BATCH_SIZE ELSE NESTED_BATCH_SIZE

\* if not board_ids: return iter([]), {} ... return generate_records(), {}
NestedDispatch(ids) ==
    IF ids = <<>> THEN Return({})
    ELSE /\ pc' = "generate_nested"
         /\ returned' = TRUE
         /\ next_offset' = {}

_read_nested ==
    /\ table \in NestedTables
    /\ page_size' = 0
    /\ IF options.board_ids # {}
       THEN LET ids == CHOOSE q \in options.board_ids : TRUE
            IN  /\ board_ids' = ids
                /\ NestedDispatch(ids)
       ELSE /\ board_ids' = <<>>
            /\ GoOn("discover")

\* a validation that let every name pass
Mut_validate_table_raises(table_name) == FALSE

\* if table_name not in self.SUPPORTED_TABLES: raise ValueError(...)
_validate_table_raises(table_name) == table_name \notin SUPPORTED_TABLES

\* the locals of a read
readLocals ==
    <<page_size, page, board_ids, board_idx, token, follow_ups, all_logs,
      changed_ids, fetched, max_timestamp, records, pending, requests,
      responses>>

read_table ==
    /\ pc = "call"
    /\ UNCHANGED callVars
    /\ IF _validate_table_raises(table)
       THEN /\ Abort("ValueError")
            /\ UNCHANGED <<readLocals, returned, next_offset>>
       ELSE /\ ResetLocals
            /\ \/ _read_boards
               \/ _read_items
               \/ _read_paged
               \/ _read_teams
               \/ _read_nested

\* _get_<table>_schema(): the schema of the table, by the table it describes
SchemaOf(t) == [schema_of |-> t]

\* the entry of the table in the metadata dictionary of read_table_metadata
MetadataOf(t) ==
    [primary_keys |-> IF t \in {"groups", "tags", "activity_logs"}
                      THEN <<"id", "board_id">> ELSE <<"id">>,
     cursor_field |-> IF t \in {"boards", "items"} THEN {"updated_at"} ELSE {},
     ingestion_type |-> IF t \in {"boards", "items"} THEN "cdc" ELSE "snapshot"]

\* a call that reads nothing leaves the reads and the remote system alone
descriptionFrame ==
    <<table, start_offset, options, passes, remoteVars, arg, readLocals,
      returned, next_offset>>

get_table_schema ==
    /\ pc = "call"
    /\ IF _validate_table_raises(table)
       THEN /\ pc' = "schema_raised"
            /\ error' = "ValueError"
            /\ UNCHANGED result
       ELSE /\ pc' = "schema_done"
            /\ result' = SchemaOf(table)
            /\ UNCHANGED error
    /\ UNCHANGED descriptionFrame

read_table_metadata ==
    /\ pc = "call"
    /\ IF _validate_table_raises(table)
       THEN /\ pc' = "metadata_raised"
            /\ error' = "ValueError"
            /\ UNCHANGED result
       ELSE /\ pc' = "metadata_done"
            /\ result' = MetadataOf(table)
            /\ UNCHANGED error
    /\ UNCHANGED descriptionFrame

\* the caller starts the next read from the checkpoint it was handed
next_read ==
    /\ pc = "done"
    /\ returned
    /\ passes < MaxPasses
    /\ table \in {"boards", "items"}
    /\ passes' = passes + 1
    /\ start_offset' = next_offset
    /\ pc' = "call"
    /\ returned' = FALSE
    /\ UNCHANGED <<table, options, remoteVars, helperVars, next_offset, error, page_size,
                   page, board_ids, board_idx, token, follow_ups, all_logs,
                   changed_ids, fetched, max_timestamp, records, pending,
                   requests, responses>>

(***************************************************************************)
(* Page-number traversals.                                                 *)
(***************************************************************************)
\* a pass that published the sentinel it started from
MutSnapshotOffset(max_updated_at) == Checkpoint(_apply_lookback(max_updated_at))

\* if max_updated_at != sentinel: lookback(max) else None;
\* return ..., {"cursor": new_cursor} if new_cursor else {}
SnapshotOffset(max_updated_at) ==
    IF max_updated_at # EPOCH
    THEN Checkpoint(_apply_lookback(max_updated_at))
    ELSE {}

\* a loop that tested only for the empty batch
MutPageEnds(batch, limit) == Len(batch) = 0

\* if not batch: break ... if len(batch) < page_size: break
PageEnds(batch, limit) == Len(batch) = 0 \/ Len(batch) < limit

\* a loop that asked for the same page again
MutPageAfter(pg) == pg

\* page += 1
PageAfter(pg) == pg + 1

\* the API answers short once the model's page bound is reached
AnswerSizes(limit, pg) ==
    IF pg >= MaxPages THEN BatchSizes(limit) \ {limit} ELSE BatchSizes(limit)

Failed(outcome) ==
    /\ Abort(outcome)
    /\ responses' = Append(responses, [outcome |-> outcome, size |-> 0, token |-> {}])

Answered(outcome, size, tok) ==
    /\ responses' = Append(responses, [outcome |-> outcome, size |-> size, token |-> tok])

_read_boards_snapshot ==
    /\ pc = "boards_snapshot"
    /\ requests' = Append(requests,
                          Request("boards", page_size, page, {}, <<>>, {}))
    /\ UNCHANGED <<callVars, page_size, board_ids, board_idx, token, follow_ups,
                   all_logs, changed_ids, fetched, pending>>
    /\ \E outcome \in Outcomes :
        IF outcome # "ok"
        THEN /\ Failed(outcome)
             /\ UNCHANGED <<page, records, max_timestamp, returned, next_offset>>
        ELSE \E k \in AnswerSizes(page_size, page), u, v \in UpdatedAts :
             LET boards == BatchNodes(k, Len(records) + 1, u, v)
                 recs == TransformAll(boards)
                 max_updated_at == MaxOver(max_timestamp, recs, "updated_at")
             IN  /\ Answered("ok", k, {})
                 /\ records' = records \o recs
                 /\ max_timestamp' = max_updated_at
                 /\ error' = error
                 /\ IF PageEnds(boards, page_size)
                    THEN /\ Return(SnapshotOffset(max_updated_at))
                         /\ page' = page
                    ELSE /\ GoOn(pc)
                         /\ page' = PageAfter(page)

\* what the account still holds beyond the boards discovered so far
DiscoverSizes(pg, seen) ==
    LET left == account_boards - seen
    IN  {k \in AnswerSizes(DISCOVER_PAGE_SIZE, pg)
              \cup {Min(left, DISCOVER_PAGE_SIZE)} : k <= left}

\* _read_boards_cdc after the discovery: if not all_board_ids: return cursor
BoardsDispatch(ids) ==
    IF ids = <<>> THEN Return({CursorOf(start_offset)}) ELSE GoOn("logs")

_discover_board_ids ==
    /\ pc = "discover"
    /\ requests' = Append(requests,
                          Request("discover", DISCOVER_PAGE_SIZE, page, {}, <<>>, {}))
    /\ UNCHANGED <<callVars, page_size, board_idx, token, follow_ups, all_logs,
                   changed_ids, fetched, pending, records, max_timestamp>>
    /\ \E outcome \in Outcomes :
        IF outcome # "ok"
        THEN /\ Failed(outcome)
             /\ UNCHANGED <<page, board_ids, returned, next_offset>>
        ELSE \E k \in DiscoverSizes(page, Len(board_ids)) :
             LET boards == [i \in 1..k |-> Len(board_ids) + i]
                 ids == board_ids \o boards
             IN  /\ Answered("ok", k, {})
                 /\ board_ids' = ids
                 /\ error' = error
                 /\ IF PageEnds(boards, DISCOVER_PAGE_SIZE)
                    THEN /\ page' = 1
                         /\ IF table = "boards" THEN BoardsDispatch(ids)
                            ELSE IF table = "items" THEN ItemsDispatch(ids)
                            ELSE NestedDispatch(ids)
                    ELSE /\ GoOn(pc)
                         /\ page' = PageAfter(page)

(***************************************************************************)
(* _read_users / _read_workspaces / _read_updates: generate_records is a   *)
(* generator.  It runs only while the consumer pulls: a query is issued    *)
(* when the consumer asks for a record and the last batch is used up.      *)
(***************************************************************************)
\* a generator that ran ahead of its consumer
MutAtYield == FALSE

\* the generator is suspended at a yield: a record of the batch at hand is
\* still to be pulled, and its code runs on only when the consumer pulls
AtYield == pending # <<>>

generate_records ==
    /\ pc = "generate"
    /\ ~AtYield
    /\ requests' = Append(requests,
                          Request(table, page_size, page, {}, <<>>, {}))
    /\ UNCHANGED <<callVars, page_size, board_ids, board_idx, token, follow_ups,
                   all_logs, changed_ids, fetched, max_timestamp, records,
                   returned, next_offset>>
    /\ \E outcome \in Outcomes :
        IF outcome # "ok"
        THEN /\ Failed(outcome)
             /\ UNCHANGED <<page, pending>>
        ELSE \E k \in AnswerSizes(page_size, page) :
             LET nodes == BatchNodes(k, Len(records) + 1, NoTs, NoTs)
             IN  /\ Answered("ok", k, {})
                 /\ pending' = TransformAll(nodes)
                 /\ error' = error
                 /\ page' = IF PageEnds(nodes, page_size) THEN page
                            ELSE PageAfter(page)
                 /\ pc' = IF k = 0 THEN "done"
                          ELSE IF PageEnds(nodes, page_size) THEN "exhausting"
                          ELSE pc

\* the consumer takes the next record the generator yields
consume ==
    /\ pc \in {"generate", "exhausting", "generate_nested"}
    /\ pending # <<>>
    /\ records' = Append(records, Head(pending))
    /\ pending' = Tail(pending)
    /\ pc' = IF pc = "exhausting" /\ Len(pending) = 1 THEN "done" ELSE pc
    /\ UNCHANGED <<callVars, page_size, page, board_ids, board_idx, token,
                   follow_ups, all_logs, changed_ids, fetched, max_timestamp,
                   requests, responses, returned, next_offset, error>>

\* the sizes the model lets a query without limit answer
NestedSizes == {0, 1, 2}

\* _read_teams.generate_records: data = self._execute_query(query)
generate_teams ==
    /\ pc = "generate_teams"
    /\ requests' = Append(requests, Request("teams", 0, 0, {}, <<>>, {}))
    /\ UNCHANGED <<callVars, page_size, page, board_ids, board_idx, token,
                   follow_ups, all_logs, changed_ids, fetched, max_timestamp,
                   records, returned, next_offset>>
    /\ \E outcome \in Outcomes :
        IF outcome # "ok"
        THEN /\ Failed(outcome)
             /\ UNCHANGED pending
        ELSE \E k \in NestedSizes :
             /\ Answered("ok", k, {})
             /\ pending' = TransformAll(BatchNodes(k, 1, NoTs, NoTs))
             /\ error' = error
             /\ pc' = IF k = 0 THEN "done" ELSE "exhausting"

\* only _read_activity_logs wraps its query in try/except RuntimeError
NestedAbsorbs(t, outcome) == t = "activity_logs" /\ outcome = "RuntimeError"

\* generate_records of _read_groups / _read_tags / _read_activity_logs:
\* the query of the next batch of boards, once the last batch is used up
generate_nested ==
    /\ pc = "generate_nested"
    /\ ~AtYield
    /\ LET size == NestedBatchSize(table)
           i == board_idx * size
           batch_ids == SubSeq(board_ids, i + 1, Min(i + size, Len(board_ids)))
           last == i + size >= Len(board_ids)
       IN  /\ requests' = Append(requests,
                                 Request(table, 0, 0, {}, batch_ids, {}))
           /\ \E outcome \in Outcomes :
               IF NestedAbsorbs(table, outcome)
               THEN /\ Answered(outcome, 0, {})
                    /\ board_idx' = board_idx + 1
                    /\ pc' = IF last THEN "done" ELSE pc
                    /\ UNCHANGED <<pending, error>>
               ELSE IF outcome # "ok"
               THEN /\ Failed(outcome)
                    /\ UNCHANGED <<pending, board_idx>>
               ELSE \E k \in NestedSizes :
                    /\ Answered("ok", k, {})
                    /\ pending' = TransformAll(
                                      BatchNodes(k, Len(records) + 1, NoTs, NoTs))
                    /\ board_idx' = board_idx + 1
                    /\ error' = error
                    /\ pc' = IF ~last THEN pc
                             ELSE IF k = 0 THEN "done" ELSE "exhausting"
    /\ UNCHANGED <<callVars, page_size, page, board_ids, token, follow_ups,
                   all_logs, changed_ids, fetched, max_timestamp, records,
                   returned, next_offset>>

(***************************************************************************)
(* _read_items_snapshot: for each board the token traversal of            *)
(* _read_items_for_board; list(generate_records()) consumes it at once.    *)
(***************************************************************************)
\* the tokens the API may hand out with a response
Tokens(n) == IF n >= MaxFollowUps THEN {{}} ELSE {{}, {n + 1}}

\* the entities the store has left to serve after `seen` of them
ItemBatchSizes(limit, seen) ==
    {k \in BatchSizes(limit) : seen + k <= Cardinality(DOMAIN store)}

\* the nodes seen+1 .. seen+k of the store, as the API returns them
ServedNodes(k, seen) ==
    [i \in 1..k |-> [id |-> seen + i, updated_at |-> store[seen + i].updated_at]]

\* a traversal that went on only after a full batch
MutTokenContinues(tok, size, limit) == tok # {} /\ size >= limit

\* while cursor: ...
TokenContinues(tok, size, limit) == tok # {}

\* a snapshot that started its maximum afresh with every response
MutTrackMax(current, recs) == MaxOver(EPOCH, recs, "updated_at")

\* nonlocal max_updated_at, kept over the boards:
\* if item_updated and item_updated > max_updated_at: max_updated_at = ...
TrackMax(current, recs) == MaxOver(current, recs, "updated_at")

\* after a response of one board: yield its items, then either follow the
\* token, or go to the next board, or finish the snapshot
ItemsResponse(items, tok) ==
    LET recs == TransformAll(items)
        max_updated_at == TrackMax(max_timestamp, recs)
    IN  /\ records' = records \o recs
        /\ max_timestamp' = max_updated_at
        /\ error' = error
        /\ IF TokenContinues(tok, Len(items), page_size)
           THEN /\ token' = tok
                /\ follow_ups' = follow_ups + 1
                /\ board_idx' = board_idx
                /\ GoOn(pc)
           ELSE /\ token' = {}
                /\ follow_ups' = 0
                /\ board_idx' = board_idx + 1
                /\ IF board_idx + 1 >= Len(board_ids)
                   THEN Return(SnapshotOffset(max_updated_at))
                   ELSE GoOn(pc)

\* the initial query of the board at hand
_read_items_for_board ==
    /\ pc = "items_snapshot"
    /\ token = {}
    /\ requests' = Append(requests,
           Request("items_page", page_size, 0, {}, <<board_ids[board_idx + 1]>>, {}))
    /\ UNCHANGED <<callVars, page_size, page, board_ids, all_logs, changed_ids,
                   fetched, pending>>
    /\ \E outcome \in Outcomes :
        IF outcome # "ok"
        THEN /\ Failed(outcome)
             /\ UNCHANGED <<records, max_timestamp, token, follow_ups, board_idx,
                            returned, next_offset>>
        ELSE \/ \* boards_data is empty: the generator returns at once
                /\ Answered("ok", 0, {})
                /\ ItemsResponse(<<>>, {})
             \/ \E k \in ItemBatchSizes(page_size, Len(records)),
                   tok \in Tokens(follow_ups) :
                /\ Answered("ok", k, tok)
                /\ ItemsResponse(ServedNodes(k, Len(records)), tok)

\* a follow-up that also counted pages
MutFollowUpRequest(tok) ==
    Request("next_items_page", page_size, follow_ups + 1, tok, <<>>, {})

\* variables = {"cursor": cursor, "limit": page_size}: no page number
FollowUpRequest(tok) ==
    Request("next_items_page", page_size, 0, tok, <<>>, {})

\* a follow-up query with the token of the previous response
next_items_page ==
    /\ pc = "items_snapshot"
    /\ token # {}
    /\ requests' = Append(requests, FollowUpRequest(token))
    /\ UNCHANGED <<callVars, page_size, page, board_ids, all_logs, changed_ids,
                   fetched, pending>>
    /\ \E outcome \in Outcomes :
        IF outcome # "ok"
        THEN /\ Failed(outcome)
             /\ UNCHANGED <<records, max_timestamp, token, follow_ups, board_idx,
                            returned, next_offset>>
        ELSE \E k \in ItemBatchSizes(page_size, Len(records)),
                tok \in Tokens(follow_ups) :
                /\ Answered("ok", k, tok)
                /\ ItemsResponse(ServedNodes(k, Len(records)), tok)

(***************************************************************************)
(* The incremental pass: _query_activity_logs batch by batch, then the     *)
(* rest of _read_items_cdc / _read_boards_cdc up to the re-fetch.          *)
(***************************************************************************)
\* a pass that stepped back by the lookback window twice
MutCdcOffset(max_ts) == {_apply_lookback(_apply_lookback(max_ts))}

\* new_cursor = lookback(max_timestamp); return ..., {"cursor": new_cursor}
CdcOffset(max_ts) == {_apply_lookback(max_ts)}

\* a pass that applied the lookback to an unchanged cursor
MutNoChangeOffset(cursor) == {_apply_lookback(cursor)}

\* if not logs: return iter([]), {"cursor": cursor}
NoChangeOffset(cursor) == {cursor}

\* the part of _read_items_cdc / _read_boards_cdc between the change-log
\* query and the re-fetch
AfterLogs(logs) ==
    LET cursor == CursorOf(start_offset)
        changed == IF table = "boards"
                   THEN _extract_board_ids_from_logs(logs)
                   ELSE _extract_item_ids_from_logs(logs)
        max_ts == _get_max_timestamp(logs, cursor)
    IN  IF logs = <<>>
        THEN /\ Return(NoChangeOffset(cursor))
             /\ UNCHANGED <<changed_ids, max_timestamp, error>>
        ELSE IF table = "items" /\ _extract_item_ids_from_logs_raises(logs)
        THEN /\ Abort("RecursionError")
             /\ UNCHANGED <<changed_ids, max_timestamp, returned, next_offset>>
        ELSE /\ max_timestamp' = max_ts
             /\ error' = error
             /\ IF changed = {}
                THEN /\ Return(CdcOffset(max_ts))
                     /\ changed_ids' = <<>>
                ELSE /\ changed_ids' \in Orders(changed)
                     /\ GoOn(IF table = "boards" THEN "fetch_boards" ELSE "fetch_items")

\* a reader that let the rejection of a batch reach the caller
Mut_query_activity_logs_absorbs(outcome) == FALSE

\* except RuntimeError: continue
_query_activity_logs_absorbs(outcome) == outcome = "RuntimeError"

\* a reader that sent all the parents left in one query
MutBatchEnd(lo, n) == n

\* board_ids[i:i + batch_size] ends at i + batch_size or at the end of the list
BatchEnd(lo, n) == Min(lo + LOG_BATCH_SIZE, n)

_query_activity_logs ==
    /\ pc = "logs"
    /\ LET n == Len(board_ids)
           hi == BatchEnd(board_idx, n)
           batch_ids == SubSeq(board_ids, board_idx + 1, hi)
           from == CursorOf(start_offset)
       IN  /\ requests' = Append(requests,
                  Request("activity_logs", 0, 0, {}, batch_ids, {from}))
           /\ UNCHANGED <<callVars, page_size, page, board_ids, token, follow_ups,
                          fetched, pending, records>>
           /\ \E outcome \in Outcomes :
               IF outcome # "ok" /\ ~_query_activity_logs_absorbs(outcome)
               THEN /\ Failed(outcome)
                    /\ UNCHANGED <<all_logs, board_idx, changed_ids, max_timestamp,
                                   returned, next_offset>>
               ELSE IF outcome = "ok" /\ BatchRaises(batch_ids, from)
               THEN /\ Abort("OverflowError")
                    /\ Answered("ok", 0, {})
                    /\ UNCHANGED <<all_logs, board_idx, changed_ids, max_timestamp,
                                   returned, next_offset>>
               ELSE LET got == IF outcome = "ok"
                               THEN LogsOfBatch(batch_ids, from, EntityFilter(table))
                               ELSE <<>>
                        logs == all_logs \o got
                    IN  /\ Answered(outcome, Len(got), {})
                        /\ all_logs' = logs
                        /\ IF hi < n
                           THEN /\ board_idx' = hi
                                /\ GoOn(pc)
                                /\ UNCHANGED <<changed_ids, max_timestamp, error>>
                           ELSE /\ board_idx' = 0
                                /\ AfterLogs(logs)

\* the end of _read_items_cdc / _read_boards_cdc: raise the maximum by the
\* updated_at of the re-fetched records, publish lookback(maximum)
AfterFetch(recs) ==
    LET max_ts == MaxOver(max_timestamp, recs, "updated_at")
    IN  /\ max_timestamp' = max_ts
        /\ records' = recs
        /\ Return(CdcOffset(max_ts))

_fetch_items_by_ids ==
    /\ pc = "fetch_items"
    /\ LET n == Len(changed_ids)
           hi == Min(board_idx + page_size, n)
           batch_ids == SubSeq(changed_ids, board_idx + 1, hi)
       IN  /\ requests' = Append(requests,
                  Request("items_by_ids", page_size, 0, {}, batch_ids, {}))
           /\ UNCHANGED <<callVars, page_size, page, board_ids, token, follow_ups,
                          all_logs, changed_ids, pending>>
           /\ \E outcome \in Outcomes :
               IF outcome = "HTTPError"
               THEN /\ Failed(outcome)
                    /\ UNCHANGED <<fetched, board_idx, max_timestamp, records,
                                   returned, next_offset>>
               ELSE LET got == IF outcome = "ok"
                               THEN TransformAll(StoreNodes(batch_ids))
                               ELSE <<>>
                        all_items == fetched \o got
                    IN  /\ Answered(outcome, Len(got), {})
                        /\ fetched' = all_items
                        /\ error' = error
                        /\ IF hi < n
                           THEN /\ board_idx' = hi
                                /\ GoOn(pc)
                                /\ UNCHANGED <<max_timestamp, records>>
                           ELSE /\ board_idx' = 0
                                /\ AfterFetch(all_items)

_fetch_boards_by_ids ==
    /\ pc = "fetch_boards"
    /\ requests' = Append(requests,
                          Request("boards_by_ids", 0, 0, {}, changed_ids, {}))
    /\ UNCHANGED <<callVars, page_size, page, board_ids, board_idx, token,
                   follow_ups, all_logs, changed_ids, pending>>
    /\ \E outcome \in Outcomes :
        IF outcome = "HTTPError"
        THEN /\ Failed(outcome)
             /\ UNCHANGED <<fetched, max_timestamp, records, returned, next_offset>>
        ELSE LET boards == IF outcome = "ok"
                           THEN TransformAll(StoreNodes(changed_ids))
                           ELSE <<>>
             IN  /\ Answered(outcome, Len(boards), {})
                 /\ fetched' = boards
                 /\ error' = error
                 /\ AfterFetch(boards)

(***************************************************************************)
(* Initial states: the arguments of the first read and the remote data.    *)
(***************************************************************************)
InitLocals ==
    /\ pc = "call"
    /\ passes = 1
    /\ arg = NoTs
    /\ result = NoTs
    /\ returned = FALSE
    /\ next_offset = {}
    /\ error = "none"
    /\ page_size = 0
    /\ page = 1
    /\ board_ids = <<>>
    /\ board_idx = 0
    /\ token = {}
    /\ follow_ups = 0
    /\ all_logs = <<>>
    /\ changed_ids = <<>>
    /\ fetched = <<>>
    /\ max_timestamp = EPOCH
    /\ records = <<>>
    /\ pending = <<>>
    /\ requests = <<>>
    /\ responses = <<>>

PageSizeOptions == {{}} \cup {{n} : n \in 1..MaxPageSize}

\* the current state of one remote entity
EntityStates ==
    {[exists |-> FALSE, updated_at |-> NoTs]}
        \cup {[exists |-> TRUE, updated_at |-> u] : u \in UpdatedAts}

\* the enumerations by page number: boards snapshot and the lazy tables
InitEnumerate ==
    /\ InitLocals
    /\ table \in {"boards"} \cup LazyPagedTables
    /\ start_offset = {}
    /\ options \in {[page_size |-> ps, board_ids |-> {}] : ps \in PageSizeOptions}
    /\ faults = Faults
    /\ account_boards = 1
    /\ feed = <<>>
    /\ store = <<>>

\* the discovery of the boards of an account of several pages
InitDiscover ==
    /\ InitLocals
    /\ table = "boards"
    /\ start_offset = {Iso(TimeStep)}
    /\ options = [page_size |-> {}, board_ids |-> {}]
    /\ faults = Faults
    /\ account_boards = MaxPages * DISCOVER_PAGE_SIZE
    /\ feed = <<>>
    /\ store = <<>>

\* the page-number traversals
InitPage == InitEnumerate \/ InitDiscover

NextPage ==
    \/ read_table
    \/ _read_boards_snapshot
    \/ _discover_board_ids
    \/ generate_records
    \/ consume

SpecPage == InitPage /\ [][NextPage]_vars

\* the items snapshot: token traversals over the given boards
InitItems ==
    /\ InitLocals
    /\ table = "items"
    /\ start_offset = {}
    /\ options \in {[page_size |-> ps, board_ids |-> {[i \in 1..n |-> i]}] :
                        ps \in PageSizeOptions, n \in 0..2}
    /\ faults = Faults
    /\ account_boards = 2
    /\ feed = <<>>
    /\ store \in [1..MaxEntities -> {e \in EntityStates : e.exists}]

NextItems ==
    \/ read_table
    \/ _read_items_for_board
    \/ next_items_page

SpecItems == InitItems /\ [][NextItems]_vars

\* the read runs on while it has a query to issue: the code is sequential and
\* every query is answered or fails after the request timeout
SpecItemsLive == SpecItems /\ WF_vars(NextItems)

\* the incremental passes of boards and items
FeedBoards == <<1, LOG_BATCH_SIZE + 1>>

FeedStamps == <<RawGarbage, RawTime(TimeStep), RawTime(3 * TimeStep)>>

\* what an entry can be: a board-level change, or a row-level change whose
\* data names item 1 or 2 (under different keys) or names no item
BoardChange == [entity |-> "board", data |-> NoKeyData]

ItemChanges ==
    <<[entity |-> "pulse",
       data |-> DictData([pulse_id |-> JsonNum(1), board_id |-> JsonNum(9)])],
      [entity |-> "pulse", data |-> DictData([itemId |-> JsonStr(2)])],
      [entity |-> "pulse", data |-> NoKeyData]>>

\* the kinds of entry in the feed of a run that reads table t: every change
\* of the kind t's pass looks for, and one change of the other kind
FeedKinds(t) ==
    IF t = "boards" THEN <<BoardChange>> ELSE ItemChanges

OtherKind(t) ==
    IF t = "boards" THEN ItemChanges[1] ELSE BoardChange

FeedPoolSize(t) == Len(FeedBoards) * Len(FeedStamps) * Len(FeedKinds(t)) + 1

\* the i-th raw entry of the pool
FeedPool(t, i) ==
    LET b == (i - 1) % Len(FeedBoards)
        r == (i - 1) \div Len(FeedBoards)
        s == r % Len(FeedStamps)
        k == r \div Len(FeedStamps)
    IN  IF i = FeedPoolSize(t)
        THEN [board |-> FeedBoards[1], entity |-> OtherKind(t).entity,
              data |-> OtherKind(t).data, created_at |-> FeedStamps[3]]
        ELSE [board |-> FeedBoards[b + 1],
              entity |-> FeedKinds(t)[k + 1].entity,
              data |-> FeedKinds(t)[k + 1].data,
              created_at |-> FeedStamps[s + 1]]

\* the feeds of at most MaxLogs entries (one order per choice of entries)
Feeds(t) ==
    UNION {{[i \in 1..m |-> FeedPool(t, q[i])] :
               q \in {x \in [1..m -> 1..FeedPoolSize(t)] :
                         \A i \in 1..m : i < m => x[i] < x[i + 1]}} :
           m \in 0..MaxLogs}

CdcEntityStates ==
    {[exists |-> FALSE, updated_at |-> NoTs],
     [exists |-> TRUE, updated_at |-> Iso(2 * TimeStep)],
     [exists |-> TRUE, updated_at |-> Iso(4 * TimeStep)],
     [exists |-> TRUE, updated_at |-> Frac(4 * TimeStep)]}

ManyBoards == [i \in 1..(LOG_BATCH_SIZE + 1) |-> i]

InitCdc ==
    /\ InitLocals
    /\ faults = Faults
    /\ start_offset = {Iso(TimeStep)}
    /\ \/ /\ table = "boards"
          /\ options = [page_size |-> {}, board_ids |-> {}]
          /\ account_boards \in {0, 1, LOG_BATCH_SIZE + 1}
          /\ store \in [{FeedBoards[i] : i \in 1..Len(FeedBoards)} -> CdcEntityStates]
       \/ /\ table = "items"
          /\ \/ /\ options = [page_size |-> {1}, board_ids |-> {ManyBoards}]
                /\ account_boards = LOG_BATCH_SIZE + 1
             \/ /\ options = [page_size |-> {}, board_ids |-> {}]
                /\ account_boards \in {0, 1}
          /\ store \in [1..MaxEntities -> CdcEntityStates]
    /\ feed \in Feeds(table)

NextCdc ==
    \/ read_table
    \/ next_read
    \/ _discover_board_ids
    \/ _query_activity_logs
    \/ _fetch_items_by_ids
    \/ _fetch_boards_by_ids

SpecCdc == InitCdc /\ [][NextCdc]_vars

(***************************************************************************)
(* The helpers called on their own, on arguments of every shape.           *)
(***************************************************************************)
\* no read is running and the remote system plays no part
InitHelper ==
    /\ passes = 1
    /\ returned = FALSE
    /\ next_offset = {}
    /\ error = "none"
    /\ page_size = 0
    /\ page = 1
    /\ board_ids = <<>>
    /\ board_idx = 0
    /\ token = {}
    /\ follow_ups = 0
    /\ all_logs = <<>>
    /\ changed_ids = <<>>
    /\ fetched = <<>>
    /\ max_timestamp = EPOCH
    /\ records = <<>>
    /\ pending = <<>>
    /\ requests = <<>>
    /\ responses = <<>>
    /\ table = "boards"
    /\ start_offset = {}
    /\ options = [page_size |-> {}, board_ids |-> {}]
    /\ faults = {}
    /\ account_boards = 0
    /\ store = <<>>

helperFrame ==
    <<table, start_offset, options, returned, next_offset, page_size, page,
      board_ids, board_idx, token, follow_ups, all_logs, changed_ids, fetched,
      max_timestamp, records, pending, requests, responses, passes, remoteVars>>

\* seconds on both sides of the minute, hour and day boundaries
BoundarySeconds ==
    {DATETIME_MIN + (d * 24 * 60 * 60) + (h * 60 * 60) + (m * 60) + sec :
        d \in 0..CalendarDays, h \in {0, 1, 23}, m \in {0, 1, 59},
        sec \in {0, 30, 59}}

\* the fixed format, the same instants with a fractional part, no value
LookbackInputs ==
    {Iso(n) : n \in BoundarySeconds} \cup {Frac(n) : n \in BoundarySeconds}
        \cup {NoTs}

InitLookback ==
    /\ InitHelper
    /\ feed = <<>>
    /\ pc = "lookback"
    /\ arg \in LookbackInputs
    /\ result = NoTs

\* _apply_lookback(arg), and again on what it returned
apply_lookback ==
    /\ pc \in {"lookback", "lookback_done"}
    /\ LET timestamp == IF pc = "lookback" THEN arg ELSE result
       IN  /\ arg' = timestamp
           /\ IF _apply_lookback_raises(timestamp)
              THEN /\ error' = "OverflowError"
                   /\ pc' = "lookback_raised"
                   /\ UNCHANGED result
              ELSE /\ result' = _apply_lookback(timestamp)
                   /\ pc' = "lookback_done"
                   /\ UNCHANGED error
    /\ UNCHANGED helperFrame

NextLookback == apply_lookback

SpecLookback == InitLookback /\ [][NextLookback]_vars

(***************************************************************************)
(* The identifier extraction called on one entry of every payload.         *)
(***************************************************************************)
\* the value each key of a payload carries
PayloadValue ==
    [pulse_id |-> 55, item_id |-> 56, id |-> 57, pulseId |-> 58, itemId |-> 77,
     board_id |-> 9, event_id |-> 0]

PayloadKeys == {"pulse_id", "item_id", "id", "pulseId", "itemId", "board_id"}

\* a payload with the keys K (and event_id), its values numbers or strings
Payload(K, asString) ==
    DictData([k \in K \cup {"event_id"} |->
                 IF asString THEN JsonStr(PayloadValue[k])
                 ELSE JsonNum(PayloadValue[k])])

Payloads ==
    {Payload(K, b) : K \in SUBSET PayloadKeys, b \in BOOLEAN}
        \cup {EmptyData, InvalidData}

ExtractInputs ==
    {<<[entity |-> e, data |-> d, created_at |-> EPOCH, board_id |-> 1]>> :
        e \in {"pulse", "board"}, d \in Payloads}

InitExtract ==
    /\ InitHelper
    /\ feed = <<>>
    /\ pc = "extract"
    /\ arg \in ExtractInputs
    /\ result = {}

\* _extract_item_ids_from_logs(arg)
extract_item_ids ==
    /\ pc = "extract"
    /\ IF _extract_item_ids_from_logs_raises(arg)
       THEN /\ pc' = "extract_raised"
            /\ error' = "RecursionError"
            /\ UNCHANGED result
       ELSE /\ result' = _extract_item_ids_from_logs(arg)
            /\ pc' = "extract_done"
            /\ UNCHANGED error
    /\ UNCHANGED <<helperFrame, arg>>

NextExtract == extract_item_ids

SpecExtract == InitExtract /\ [][NextExtract]_vars

(***************************************************************************)
(* The identifier extraction called on lists of entries, some of which it  *)
(* has to skip.                                                            *)
(***************************************************************************)
\* entries that name an item, entries of another kind or of no kind, and
\* row-level entries whose data are empty, unparsable or no mapping
ListEntries ==
    {[entity |-> "pulse", data |-> Payload({"pulse_id", "board_id"}, FALSE)],
     [entity |-> "pulse", data |-> Payload({"itemId"}, TRUE)],
     [entity |-> "pulse", data |-> Payload({"item_id", "pulse_id", "board_id"}, FALSE)],
     [entity |-> "pulse", data |-> Payload({"id", "board_id"}, TRUE)],
     [entity |-> "pulse", data |-> Payload({"board_id"}, FALSE)],
     [entity |-> "board", data |-> Payload({"pulse_id"}, FALSE)],
     [entity |-> "", data |-> Payload({"id"}, FALSE)],
     [entity |-> "pulse", data |-> EmptyData],
     [entity |-> "pulse", data |-> InvalidData],
     [entity |-> "pulse", data |-> OtherData],
     [entity |-> "pulse", data |-> DeepData]}

ListInputs ==
    UNION {[1..m -> {[entity |-> e.entity, data |-> e.data,
                      created_at |-> EPOCH, board_id |-> 1] : e \in ListEntries}] :
           m \in 1..MaxLogs}

InitExtractList ==
    /\ InitHelper
    /\ feed = <<>>
    /\ pc = "extract"
    /\ arg \in ListInputs
    /\ result = {}

NextExtractList == extract_item_ids

SpecExtractList == InitExtractList /\ [][NextExtractList]_vars

(***************************************************************************)
(* The change-log reader called with every entity filter, over every feed. *)
(***************************************************************************)
EntityFilters == {NoFilter, "board", "pulse"}

InitFilter ==
    /\ InitHelper
    /\ feed \in Feeds("items") \cup Feeds("boards")
    /\ pc = "filter"
    /\ arg \in EntityFilters
    /\ result = <<>>

\* _query_activity_logs(board_ids, entity_filter=arg), every query answered
query_activity_logs_filter ==
    /\ pc = "filter"
    /\ result' = LogsOfBatch(FeedBoards, EPOCH, arg)
    /\ pc' = "filter_done"
    /\ UNCHANGED <<helperFrame, arg, error>>

NextFilter == query_activity_logs_filter

SpecFilter == InitFilter /\ [][NextFilter]_vars

(***************************************************************************)
(* The change-log reader and the board-identifier extraction, over feeds   *)
(* whose entries carry every payload.                                      *)
(***************************************************************************)
ParentFeedData ==
    <<NoKeyData, Payload({"board_id", "pulse_id"}, FALSE), EmptyData>>

ParentFeedPoolSize == Len(FeedBoards) * 2 * Len(ParentFeedData)

\* the i-th raw entry: a board, a kind, a payload
ParentFeedPool(i) ==
    LET b == (i - 1) % Len(FeedBoards)
        r == (i - 1) \div Len(FeedBoards)
    IN  [board |-> FeedBoards[b + 1],
         entity |-> IF r % 2 = 0 THEN "board" ELSE "pulse",
         data |-> ParentFeedData[(r \div 2) + 1],
         created_at |-> RawTime(TimeStep)]

ParentFeeds ==
    UNION {{[i \in 1..m |-> ParentFeedPool(q[i])] :
               q \in {x \in [1..m -> 1..ParentFeedPoolSize] :
                         \A i \in 1..m : i < m => x[i] < x[i + 1]}} :
           m \in 0..MaxLogs}

InitParents ==
    /\ InitHelper
    /\ feed \in ParentFeeds
    /\ pc = "filter"
    /\ arg \in {NoFilter, "board"}
    /\ result = <<>>

\* _extract_board_ids_from_logs(logs) on what the reader returned
extract_board_ids ==
    /\ pc = "filter_done"
    /\ all_logs' = result
    /\ result' = _extract_board_ids_from_logs(result)
    /\ pc' = "board_ids_done"
    /\ UNCHANGED <<table, start_offset, options, returned, next_offset,
                   page_size, page, board_ids, board_idx, token, follow_ups,
                   changed_ids, fetched, max_timestamp, records, pending,
                   requests, responses, passes, remoteVars, arg, error>>

NextParents == query_activity_logs_filter \/ extract_board_ids

SpecParents == InitParents /\ [][NextParents]_vars

(***************************************************************************)
(* The change-log reader over lists of parents of every length around the  *)
(* batch size.                                                             *)
(***************************************************************************)
ParentCounts ==
    {1, LOG_BATCH_SIZE - 1, LOG_BATCH_SIZE, LOG_BATCH_SIZE + 1,
     2 * LOG_BATCH_SIZE, (2 * LOG_BATCH_SIZE) + 1}

InitBatches ==
    /\ InitLocals
    /\ table = "items"
    /\ start_offset = {Iso(TimeStep)}
    /\ options \in {[page_size |-> {}, board_ids |-> {[i \in 1..n |-> i]}] :
                        n \in ParentCounts}
    /\ faults = Faults
    /\ account_boards = 0
    /\ feed \in {<<>>, <<FeedPool("items", 1)>>}
    /\ store = [i \in 1..MaxEntities |-> [exists |-> FALSE, updated_at |-> NoTs]]

NextBatches == read_table \/ _query_activity_logs \/ _fetch_items_by_ids

SpecBatches == InitBatches /\ [][NextBatches]_vars

(***************************************************************************)
(* The tables without cursor field, read with and without a cursor in the  *)
(* checkpoint handed in.                                                   *)
(***************************************************************************)
PlainTables == LazyPagedTables \cup {"teams"} \cup NestedTables

\* board lists of one batch and of two batches of every nested table
NestedBoards == {[i \in 1..n |-> i] : n \in {1, LOG_BATCH_SIZE + 1,
                                               NESTED_BATCH_SIZE + 1}}

InitPlain ==
    /\ InitLocals
    /\ table \in PlainTables
    /\ start_offset \in {{}, {Iso(TimeStep)}}
    /\ \/ /\ table \in LazyPagedTables
          /\ options \in {[page_size |-> ps, board_ids |-> {}] :
                              ps \in PageSizeOptions}
          /\ account_boards = 0
       \/ /\ table = "teams"
          /\ options = [page_size |-> {}, board_ids |-> {}]
          /\ account_boards = 0
       \/ /\ table \in NestedTables
          /\ \/ /\ options \in {[page_size |-> {}, board_ids |-> {q}] :
                                     q \in NestedBoards}
                /\ account_boards = 0
             \/ /\ options = [page_size |-> {}, board_ids |-> {}]
                /\ account_boards \in {0, 1}
    /\ faults = Faults
    /\ feed = <<>>
    /\ store = <<>>

NextPlain ==
    \/ read_table
    \/ _discover_board_ids
    \/ generate_records
    \/ generate_teams
    \/ generate_nested
    \/ consume

SpecPlain == InitPlain /\ [][NextPlain]_vars

(***************************************************************************)
(* The records the generator of _read_activity_logs builds from the raw    *)
(* entries of one board, with raw values of every shape.                   *)
(***************************************************************************)
\* log.get("created_at", "0"): the raw value of an entry without created_at
RawZero == [numeric |-> TRUE, units |-> 0]

RawStamps == {RawTime(TimeStep), RawGarbage, RawZero, RawHuge}

RawIds == {JsonNum(7), JsonStr(7), JsonText, JsonNull}

RawLogs == {[created_at |-> c, user_id |-> u] : c \in RawStamps, u \in RawIds}

ConvertInputs ==
    {[logs |-> q, board_id |-> b] :
        q \in UNION {[1..m -> RawLogs] : m \in 1..MaxLogs},
        b \in {JsonStr(1), JsonText}}

\* the fields of _transform_activity_log that are converted
_transform_activity_log(log, board_id) ==
    [created_at |-> _convert_activity_timestamp(log.created_at),
     user_id |-> _to_long(log.user_id),
     board_id |-> _to_long(board_id)]

InitConvert ==
    /\ InitHelper
    /\ feed = <<>>
    /\ pc = "transform"
    /\ arg \in ConvertInputs
    /\ result = <<>>

\* for log in logs: yield self._transform_activity_log(log, board_id)
transform_activity_log ==
    /\ pc = "transform"
    /\ LET log == arg.logs[Len(result) + 1]
       IN  IF _convert_activity_timestamp_raises(log.created_at)
           THEN /\ pc' = "transform_raised"
                /\ error' = "OverflowError"
                /\ UNCHANGED result
           ELSE /\ result' = Append(result,
                                    _transform_activity_log(log, arg.board_id))
                /\ pc' = IF Len(result) + 1 = Len(arg.logs)
                         THEN "transform_done" ELSE pc
                /\ UNCHANGED error
    /\ UNCHANGED <<helperFrame, arg>>

NextConvert == transform_activity_log

SpecConvert == InitConvert /\ [][NextConvert]_vars

(***************************************************************************)
(* The three operations that take a table name, called with supported and  *)
(* unsupported names.                                                      *)
(***************************************************************************)
\* names that are not in SUPPORTED_TABLES: empty, singular, capitalised,
\* a resource of the API the connector does not read
UnsupportedNames == {"", "board", "Boards", "columns"}

InitValidate ==
    /\ InitLocals
    /\ table \in SUPPORTED_TABLES \cup UnsupportedNames
    /\ start_offset \in {{}, {Iso(TimeStep)}}
    /\ options = [page_size |-> {1}, board_ids |-> {<<1>>}]
    /\ faults = Faults
    /\ account_boards = 1
    /\ feed \in {<<>>, <<FeedPool("items", 1)>>, <<FeedPool("boards", 1)>>}
    /\ store = [i \in 1..MaxEntities |->
                   [exists |-> TRUE, updated_at |-> Iso(2 * TimeStep)]]

NextValidate ==
    \/ get_table_schema
    \/ read_table_metadata
    \/ read_table
    \/ next_read
    \/ _read_boards_snapshot
    \/ _discover_board_ids
    \/ generate_records
    \/ generate_teams
    \/ generate_nested
    \/ consume
    \/ _read_items_for_board
    \/ next_items_page
    \/ _query_activity_logs
    \/ _fetch_items_by_ids
    \/ _fetch_boards_by_ids

SpecValidate == InitValidate /\ [][NextValidate]_vars

\* replaying: chained incremental passes of items over a remote store that
\* does not change and whose every query succeeds
ReplayStamps == <<RawTime(TimeStep), RawTime(2 * TimeStep), RawTime(3 * TimeStep)>>

ReplayPoolSize == 2 * Len(ReplayStamps)

\* the i-th raw entry of the pool: a row-level change of board 1 that names
\* item 1 or item 2, created at one of the well-formed times
ReplayPool(i) ==
    [board |-> 1,
     entity |-> ItemChanges[((i - 1) % 2) + 1].entity,
     data |-> ItemChanges[((i - 1) % 2) + 1].data,
     created_at |-> ReplayStamps[((i - 1) \div 2) + 1]]

ReplayFeeds ==
    UNION {{[i \in 1..m |-> ReplayPool(q[i])] :
               q \in {x \in [1..m -> 1..ReplayPoolSize] :
                         \A i \in 1..m : i < m => x[i] < x[i + 1]}} :
           m \in 0..MaxLogs}

InitReplay ==
    /\ InitLocals
    /\ faults = {}
    /\ table = "items"
    /\ start_offset = {Iso(TimeStep)}
    /\ options = [page_size |-> {}, board_ids |-> {}]
    /\ account_boards = 1
    /\ store \in [1..MaxEntities -> CdcEntityStates]
    /\ feed \in ReplayFeeds

\* the caller feeds every returned checkpoint to a further read, without end
\* (the reads it has started are counted up to MaxPasses)
replay_read ==
    /\ pc = "done"
    /\ returned
    /\ table \in {"boards", "items"}
    /\ passes' = IF passes < MaxPasses THEN passes + 1 ELSE passes
    /\ start_offset' = next_offset
    /\ pc' = "call"
    /\ returned' = FALSE
    /\ UNCHANGED <<table, options, remoteVars, helperVars, next_offset, error, page_size,
                   page, board_ids, board_idx, token, follow_ups, all_logs,
                   changed_ids, fetched, max_timestamp, records, pending,
                   requests, responses>>

NextReplay ==
    \/ read_table
    \/ replay_read
    \/ _discover_board_ids
    \/ _query_activity_logs
    \/ _fetch_items_by_ids

\* the code is sequential: a pass runs to its end, and the caller of a replay
\* starts the next pass when one has returned
SpecReplay == InitReplay /\ [][NextReplay]_vars /\ WF_vars(NextReplay)

\* every read of the model: the page traversals, the items snapshot, the
\* incremental passes and the tables without cursor field
Init == InitEnumerate \/ InitItems \/ InitCdc \/ InitPlain

Next ==
    \/ read_table
    \/ next_read
    \/ _read_boards_snapshot
    \/ _discover_board_ids
    \/ generate_records
    \/ generate_teams
    \/ generate_nested
    \/ consume
    \/ _read_items_for_board
    \/ next_items_page
    \/ _query_activity_logs
    \/ _fetch_items_by_ids
    \/ _fetch_boards_by_ids

Spec == Init /\ [][Next]_vars

(***************************************************************************)
(* Vocabulary of the properties.                                           *)
(***************************************************************************)
Done == pc = "done"

HasCursor(offset) == offset # {}

\* the pass at hand is an incremental pass of boards or items
IncrementalPass == table \in {"boards", "items"} /\ Truthy(CursorOf(start_offset))

SnapshotPass == table \in {"boards", "items"} /\ ~Truthy(CursorOf(start_offset))

RequestsOf(kinds) == {i \in 1..Len(requests) : requests[i].kind \in kinds}

PagedKinds == {"boards", "discover", "users", "workspaces", "updates"}
EnumerationKinds == {"boards", "items_page", "next_items_page"}
ChangeLogKinds == {"activity_logs"}
RefetchKinds == {"items_by_ids", "boards_by_ids"}

\* m is the largest of a non-empty set of timestamps
IsLargest(m, S) == m \in S /\ \A x \in S : TsGeq(m, x)

\* every timestamp above the sentinel among the given ones
AboveSentinel(S) == {x \in S : Truthy(x) /\ TsGreater(x, EPOCH)}

\* the number of entities the first n responses held, over the requests
\* of the given kinds
RECURSIVE SumSizes(_, _)
SumSizes(kinds, n) ==
    IF n = 0 THEN 0
    ELSE SumSizes(kinds, n - 1)
             + (IF requests[n].kind \in kinds THEN responses[n].size ELSE 0)

UpdatedAtsOf(recs) == TruthyValues(recs, "updated_at")

CreatedAtsOf(logs) == TruthyValues(logs, "created_at")

(***************************************************************************)
(* C1.  No incremental pass returns a cursor that lets a change be         *)
(* skipped: if an entity that exists remotely has a change-log entry of    *)
(* the pass's kind, under one of the pass's parents, with a timestamp t    *)
(* at or after the input cursor, and no emitted record is that entity,     *)
(* then the returned cursor is not later than t.                           *)
(***************************************************************************)
\* the entity a raw entry is about: the board for a board-level change,
\* the item its data names for a row-level change
EntityOfChange(e) ==
    IF e.entity = "board" THEN {e.board}
    ELSE IF e.data.shape = "dict" THEN FirstKeyId(e.data.d) ELSE {}

EmittedIds == {records[i].id : i \in 1..Len(records)}

ParentIds == {board_ids[i] : i \in 1..Len(board_ids)}

\* the changes of this pass's kind the feed holds at or after the cursor
ChangesSince(cursor) ==
    {i \in 1..Len(feed) :
        /\ feed[i].entity = EntityFilter(table)
        /\ feed[i].board \in ParentIds
        /\ feed[i].created_at.numeric
        /\ TsGeq(_convert_activity_timestamp(feed[i].created_at), cursor)}

C1_NoChangeSkipped ==
    (Done /\ IncrementalPass /\ HasCursor(next_offset)) =>
        \A i \in ChangesSince(CursorOf(start_offset)) :
            \A x \in EntityOfChange(feed[i]) :
                (x \in DOMAIN store /\ store[x].exists /\ x \notin EmittedIds)
                    => TsGeq(_convert_activity_timestamp(feed[i].created_at),
                             CursorOf(next_offset))

C3_CursorSelectsPath ==
    (table \in {"boards", "items"} /\ pc # "call") =>
        /\ \A i \in RequestsOf(EnumerationKinds) : SnapshotPass
        /\ \A i \in RequestsOf(ChangeLogKinds \cup RefetchKinds) : IncrementalPass
        /\ \A i \in RequestsOf(ChangeLogKinds) : requests[i].from = start_offset
        /\ (Done /\ SnapshotPass /\ (table = "items" => board_ids # <<>>))
               => /\ RequestsOf(EnumerationKinds) # {}
                  /\ RequestsOf(ChangeLogKinds \cup RefetchKinds) = {}
        /\ (Done /\ IncrementalPass /\ board_ids # <<>>)
               => /\ RequestsOf(ChangeLogKinds) # {}
                  /\ RequestsOf(EnumerationKinds) = {}

\* an incremental pass of boards has run the change-log path to its end
C3_Witness ==
    /\ Done /\ table = "boards" /\ IncrementalPass
    /\ RequestsOf(ChangeLogKinds) # {}
    /\ RequestsOf(RefetchKinds) # {}

(***************************************************************************)
(* C4.  A page-number traversal stops at the first batch that is empty or  *)
(* shorter than the requested page size: after such a batch no further     *)
(* page of that traversal is requested and the page loop has been left.    *)
(***************************************************************************)
ShortBatch(i) ==
    /\ requests[i].kind \in PagedKinds
    /\ responses[i].outcome = "ok"
    /\ responses[i].size < requests[i].limit

C4_StopsAtShortBatch ==
    /\ \A i, j \in 1..Len(requests) :
           (i < j /\ ShortBatch(i)) => requests[j].kind # requests[i].kind
    /\ (requests # <<>> /\ ShortBatch(Len(requests)))
           => pc \notin {"boards_snapshot", "discover", "generate"}

\* a traversal has ended on a short, non-empty batch after two full pages
C4_Witness ==
    /\ Len(requests) = 3
    /\ requests[3].kind \in PagedKinds
    /\ requests[3].page = 3
    /\ ShortBatch(3)
    /\ responses[3].size > 0
    /\ Done

(***************************************************************************)
(* C5.  A token traversal issues a follow-up request exactly when the      *)
(* previous response carried a token, and passes that token; a response    *)
(* without token ends the traversal of its board, whatever its size.       *)
(***************************************************************************)
TokenKinds == {"items_page", "next_items_page"}

C5_TokenDecides ==
    table = "items" =>
        /\ \A i \in RequestsOf({"next_items_page"}) :
               /\ i > 1
               /\ requests[i - 1].kind \in TokenKinds
               /\ responses[i - 1].outcome = "ok"
               /\ responses[i - 1].token # {}
               /\ requests[i].token = responses[i - 1].token
        /\ \A i \in RequestsOf(TokenKinds) :
               (i < Len(requests) /\ responses[i].token # {})
                   => requests[i + 1].kind = "next_items_page"
        /\ \A i \in RequestsOf(TokenKinds) :
               (i = Len(requests) /\ responses[i].outcome = "ok")
                   => IF responses[i].token # {}
                      THEN pc = "items_snapshot" /\ token = responses[i].token
                      ELSE token = {}

\* a full batch without token has ended a traversal, and a short batch
\* with a token has been followed up
C5_Witness ==
    /\ Done /\ table = "items"
    /\ \E i \in RequestsOf(TokenKinds) :
           /\ responses[i].size = requests[i].limit
           /\ responses[i].token = {}
           /\ i = Len(requests)
    /\ \E i \in RequestsOf(TokenKinds) :
           /\ responses[i].size < requests[i].limit
           /\ responses[i].token # {}
           /\ requests[i + 1].kind = "next_items_page"

(***************************************************************************)
(* C6.  A snapshot pass that returns has emitted exactly as many records   *)
(* as the batches held, and when some record carries an updated_at above   *)
(* the sentinel the returned cursor is lookback of the largest updated_at  *)
(* of the emitted records.                                                 *)
(***************************************************************************)
C6_SnapshotEndToEnd ==
    (Done /\ SnapshotPass) =>
        /\ Len(records) = SumSizes(EnumerationKinds, Len(responses))
        /\ \A m \in AboveSentinel(UpdatedAtsOf(records)) :
               IsLargest(m, UpdatedAtsOf(records))
                   => next_offset = {_apply_lookback(m)}

\* scenario A: batches of 50, 50 and 12 at page size 50, 112 records
C6_Witness ==
    /\ Done /\ SnapshotPass
    /\ page_size = 50
    /\ Len(responses) = 3
    /\ responses[1].size = 50 /\ responses[2].size = 50 /\ responses[3].size = 12
    /\ Len(records) = 112
    /\ HasCursor(next_offset)

(***************************************************************************)
(* C7.  An incremental pass whose change-log query yields no entry of its  *)
(* kind emits nothing, re-fetches nothing and returns its input            *)
(* checkpoint, without lookback.                                           *)
(***************************************************************************)
C7_NoChangesKeepsCheckpoint ==
    (Done /\ IncrementalPass /\ RequestsOf(ChangeLogKinds) # {} /\ all_logs = <<>>) =>
        /\ records = <<>>
        /\ RequestsOf(RefetchKinds) = {}
        /\ next_offset = start_offset

\* the feed answered, with entries of the other kind only
C7_Witness ==
    /\ Done /\ IncrementalPass /\ all_logs = <<>>
    /\ \E i \in RequestsOf(ChangeLogKinds) : responses[i].outcome = "ok"
    /\ \E i \in 1..Len(feed) :
           feed[i].entity # EntityFilter(table) /\ feed[i].board \in ParentIds
    /\ next_offset = start_offset

(***************************************************************************)
(* C8.  As claimed: entries of the kind but no identifier: no record, and  *)
(* the returned cursor is lookback of the largest log timestamp.           *)
(***************************************************************************)
NoIdentifier ==
    /\ Done /\ IncrementalPass /\ table = "items"
    /\ all_logs # <<>>
    /\ _extract_item_ids_from_logs(all_logs) = {}

C8_AdvancesToMaxLog ==
    NoIdentifier =>
        /\ records = <<>>
        /\ \A m \in CreatedAtsOf(all_logs) :
               IsLargest(m, CreatedAtsOf(all_logs))
                   => next_offset = {_apply_lookback(m)}

(***************************************************************************)
(* C8, amended.  Entries of the kind but no identifier: no record, no      *)
(* re-fetch, and the returned cursor is lookback of the largest of the     *)
(* input cursor and the log timestamps.                                    *)
(***************************************************************************)
C8_AdvancesToMaxOfCursorAndLog ==
    NoIdentifier =>
        /\ records = <<>>
        /\ RequestsOf(RefetchKinds) = {}
        /\ \A m \in CreatedAtsOf(all_logs) \cup start_offset :
               IsLargest(m, CreatedAtsOf(all_logs) \cup start_offset)
                   => next_offset = {_apply_lookback(m)}

\* the cursor has advanced past its input on unresolvable entries
C8_Witness ==
    /\ NoIdentifier
    /\ HasCursor(next_offset)
    /\ TsGreater(CursorOf(next_offset), CursorOf(start_offset))

(***************************************************************************)
(* C9.  As claimed: the running maximum starts at the epoch sentinel, in   *)
(* an incremental pass too, where it ranges over the log timestamps and    *)
(* the updated_at of the re-fetched records.                               *)
(***************************************************************************)
\* the timestamps an incremental pass observes
ObservedCdc == CreatedAtsOf(all_logs) \cup UpdatedAtsOf(records)

C9_MaxFromSentinel ==
    /\ (Done /\ SnapshotPass) =>
           \A m \in AboveSentinel(UpdatedAtsOf(records)) :
               IsLargest(m, UpdatedAtsOf(records))
                   => next_offset = {_apply_lookback(m)}
    /\ (Done /\ IncrementalPass /\ all_logs # <<>>) =>
           \A m \in {EPOCH} \cup ObservedCdc :
               (IsLargest(m, {EPOCH} \cup ObservedCdc) /\ TsGreater(m, EPOCH))
                   => next_offset = {_apply_lookback(m)}

(***************************************************************************)
(* C9, amended.  In a snapshot pass the running maximum starts at the      *)
(* epoch sentinel and ranges over the updated_at of the enumerated         *)
(* records; in an incremental pass that saw log entries it starts at the   *)
(* input cursor and ranges over the log timestamps and the updated_at of   *)
(* the re-fetched records.  The returned cursor is lookback(maximum).      *)
(***************************************************************************)
C9_MaxFromSentinelOrCursor ==
    /\ (Done /\ SnapshotPass) =>
           \A m \in AboveSentinel(UpdatedAtsOf(records)) :
               IsLargest(m, UpdatedAtsOf(records))
                   => next_offset = {_apply_lookback(m)}
    /\ (Done /\ IncrementalPass /\ all_logs # <<>>) =>
           \A m \in start_offset \cup ObservedCdc :
               IsLargest(m, start_offset \cup ObservedCdc)
                   => next_offset = {_apply_lookback(m)}

\* a re-fetched record has raised the maximum above every log timestamp
C9_Witness ==
    /\ Done /\ IncrementalPass /\ all_logs # <<>> /\ records # <<>>
    /\ \E m \in UpdatedAtsOf(records) :
           /\ \A x \in CreatedAtsOf(all_logs) \cup start_offset : TsGreater(m, x)
           /\ next_offset = {_apply_lookback(m)}

(***************************************************************************)
(* C10.  A snapshot pass in which no updated_at exceeded the sentinel      *)
(* returns the empty checkpoint, and the read that follows it is a         *)
(* snapshot pass again.                                                    *)
(***************************************************************************)
C10_EmptyCheckpoint ==
    /\ (Done /\ SnapshotPass /\ AboveSentinel(UpdatedAtsOf(records)) = {})
           => next_offset = {}
    /\ (passes > 1 /\ pc = "call" /\ next_offset = {}) => SnapshotPass

\* records were enumerated, none with an updated_at, and the next read
\* starts without cursor
C10_Witness ==
    /\ passes = 2 /\ pc = "call"
    /\ records # <<>>
    /\ AboveSentinel(UpdatedAtsOf(records)) = {}
    /\ start_offset = {}

(***************************************************************************)
(* C11.  lookback(t) is t minus exactly 60 seconds for every timestamp t   *)
(* of the fixed format, across minute, hour and day boundaries, and        *)
(* lookback(t) = t for every input that does not parse, however often it   *)
(* is applied.                                                             *)
(***************************************************************************)
\* the day of the calendar and the clock fields a fixed-format string shows
Fields(t) ==
    LET n == t.sec - DATETIME_MIN
    IN  [day |-> n \div (24 * 60 * 60),
         hh |-> (n % (24 * 60 * 60)) \div (60 * 60),
         mm |-> (n % (60 * 60)) \div 60,
         ss |-> n % 60]

\* one minute earlier, by borrowing from the hour and from the day
MinuteBefore(f) ==
    IF f.mm > 0 THEN [f EXCEPT !.mm = f.mm - 1]
    ELSE IF f.hh > 0 THEN [f EXCEPT !.hh = f.hh - 1, !.mm = 59]
    ELSE [f EXCEPT !.day = f.day - 1, !.hh = 23, !.mm = 59]

LookbackCalled == pc \in {"lookback_done", "lookback_raised"}

C11_LookbackExact ==
    LookbackCalled =>
        IF arg.fmt = "iso"
        THEN /\ pc = "lookback_done"
             /\ result.fmt = "iso"
             /\ Fields(result) = MinuteBefore(Fields(arg))
        ELSE /\ pc = "lookback_done"
             /\ result = arg

(***************************************************************************)
(* C12.  A read of a table without cursor field (users, workspaces, teams, *)
(* groups, tags, updates, activity_logs) runs the enumeration only and     *)
(* returns the empty checkpoint, with or without a cursor in the           *)
(* checkpoint handed in: every query is the enumeration of the table or    *)
(* the discovery of its boards, none carries the cursor (a change-log      *)
(* query "from" it), and none is a re-fetch by ID.                         *)
(***************************************************************************)
PlainPass == table \in PlainTables /\ pc # "call"

C12_PlainTablesIgnoreCheckpoint ==
    PlainPass =>
        /\ returned => next_offset = {}
        /\ \A i \in 1..Len(requests) :
               /\ requests[i].kind \in {table, "discover"}
               /\ requests[i].from = {}
        /\ RequestsOf(RefetchKinds) = {}
        /\ all_logs = <<>>
        /\ changed_ids = <<>>

\* a read that was handed a cursor has enumerated records to the end
C12_Witness ==
    /\ PlainPass /\ pc = "done"
    /\ HasCursor(start_offset)
    /\ records # <<>>
    /\ next_offset = {}

(***************************************************************************)
(* C13.  The change-log batch query is the only query whose rejection by   *)
(* the remote API is absorbed: a RuntimeError answered to any other query  *)
(* of a read (an enumeration page, the discovery of the boards, a re-fetch *)
(* by ID) is the last query of the read, which aborts with that error.     *)
(***************************************************************************)
Rejected(i) == responses[i].outcome = "RuntimeError"

C13_OnlyChangeLogAbsorbs ==
    \A i \in 1..Len(requests) :
        (Rejected(i) /\ requests[i].kind \notin ChangeLogKinds) =>
            /\ i = Len(requests)
            /\ pc = "aborted"
            /\ error = "RuntimeError"

(***************************************************************************)
(* C14.  As claimed: for every table, a checkpoint is handed back only     *)
(* when the last remote query of the pass has succeeded, and a read that   *)
(* aborts has handed back none.                                            *)
(***************************************************************************)
C14_CheckpointAfterLastQuery ==
    /\ returned => pc = "done"
    /\ pc = "aborted" => ~returned

(***************************************************************************)
(* C14, amended.  A transport failure of any query, and a rejection of a   *)
(* query other than the change-log and re-fetch queries, aborts the pass;  *)
(* an aborted pass ends on the failed query with its error.  A read of     *)
(* boards or items hands back its checkpoint only after its last query     *)
(* and hands back none when it aborts.  A read of a table without cursor   *)
(* field hands back the empty checkpoint with its iterator before the      *)
(* enumeration queries are issued; their failure aborts the iteration.     *)
(***************************************************************************)
\* the queries whose rejection the code catches
AbsorbingKinds == ChangeLogKinds \cup RefetchKinds

Unrecovered(i) ==
    \/ responses[i].outcome = "HTTPError"
    \/ Rejected(i) /\ requests[i].kind \notin AbsorbingKinds

C14_EagerReadsReturnLast ==
    /\ \A i \in 1..Len(requests) :
           Unrecovered(i) => /\ i = Len(requests)
                             /\ pc = "aborted"
                             /\ error = responses[i].outcome
    /\ pc = "aborted" =>
           /\ requests # <<>>
           /\ responses[Len(responses)].outcome \in Faults
           /\ error = responses[Len(responses)].outcome
    /\ table \in {"boards", "items"} =>
           /\ returned => pc = "done"
           /\ pc = "aborted" => ~returned
    /\ (table \in PlainTables /\ returned) => next_offset = {}

\* a second read of boards failed on a later page of its snapshot: records
\* were collected, nothing was handed back
C14_Witness ==
    /\ table = "boards" /\ pc = "aborted"
    /\ passes = 2
    /\ records # <<>>
    /\ ~returned
    /\ error = "HTTPError"

(***************************************************************************)
(* C15.  A change-log batch query that the remote API rejects is skipped:  *)
(* it is not retried, it surfaces no error, the query of the next batch    *)
(* is still issued, and the reader returns the entries of all the batches  *)
(* that succeeded.                                                         *)
(***************************************************************************)
LogRequests == RequestsOf(ChangeLogKinds)

\* the batch of request i ends the list of parents
LastBatch(i) ==
    requests[i].ids[Len(requests[i].ids)] = board_ids[Len(board_ids)]

\* the batch that follows the batch of request i
BatchAfter(i) ==
    LET lo == CHOOSE k \in 1..Len(board_ids) :
                  board_ids[k] = requests[i].ids[Len(requests[i].ids)]
    IN  SubSeq(board_ids, lo + 1, Min(lo + LOG_BATCH_SIZE, Len(board_ids)))

\* the kept entries of the batches that were answered, in order
RECURSIVE AnsweredLogs(_)
AnsweredLogs(n) ==
    IF n = 0 THEN <<>>
    ELSE AnsweredLogs(n - 1)
             \o (IF requests[n].kind \in ChangeLogKinds
                       /\ responses[n].outcome = "ok"
                 THEN LogsOfBatch(requests[n].ids, CursorOf(start_offset),
                                  EntityFilter(table))
                 ELSE <<>>)

LogsRead == pc \in {"fetch_items", "fetch_boards", "done"} /\ LogRequests # {}

C15_RejectedBatchSkipped ==
    (IncrementalPass /\ pc # "call") =>
        /\ \A i \in LogRequests :
               Rejected(i) =>
                   /\ pc # "aborted" \/ i < Len(requests)
                   /\ i = Len(requests) => error = "none"
                   /\ \A j \in LogRequests :
                          j # i => requests[j].ids # requests[i].ids
                   /\ ~LastBatch(i) =>
                          IF i = Len(requests)
                          THEN pc = "logs"
                          ELSE /\ requests[i + 1].kind \in ChangeLogKinds
                               /\ requests[i + 1].ids = BatchAfter(i)
        /\ LogsRead => all_logs = AnsweredLogs(Len(requests))

\* the first batch was rejected, the second gave the entries returned
C15_Witness ==
    /\ IncrementalPass /\ pc = "done"
    /\ Len(requests) >= 2
    /\ requests[1].kind \in ChangeLogKinds /\ Rejected(1)
    /\ requests[2].kind \in ChangeLogKinds /\ responses[2].outcome = "ok"
    /\ all_logs # <<>>
    /\ error = "none"

(***************************************************************************)
(* C16.  The change-log reader sends the parent IDs in consecutive batches *)
(* of at most 10, one query per batch: the IDs of its queries, in order,   *)
(* are the given list, every ID in exactly one query, and n parents make   *)
(* exactly ceil(n / 10) queries.                                           *)
(***************************************************************************)
\* the IDs sent by the change-log queries among the first n requests
RECURSIVE SentIds(_)
SentIds(n) ==
    IF n = 0 THEN <<>>
    ELSE SentIds(n - 1)
             \o (IF requests[n].kind \in ChangeLogKinds THEN requests[n].ids
                 ELSE <<>>)

CeilDiv(n, d) == (n + d - 1) \div d

C16_BatchesOfTen ==
    (IncrementalPass /\ pc # "call") =>
        /\ \A i \in LogRequests :
               Len(requests[i].ids) >= 1 /\ Len(requests[i].ids) <= 10
        /\ Len(SentIds(Len(requests))) <= Len(board_ids)
        /\ SentIds(Len(requests))
               = SubSeq(board_ids, 1, Len(SentIds(Len(requests))))
        /\ LogsRead =>
               /\ SentIds(Len(requests)) = board_ids
               /\ Cardinality(LogRequests) = CeilDiv(Len(board_ids), 10)

\* 21 parents went out in three queries of 10, 10 and 1
C16_Witness ==
    /\ IncrementalPass /\ pc = "done"
    /\ Len(board_ids) = 21
    /\ Cardinality(LogRequests) = 3
    /\ Len(requests[1].ids) = 10
    /\ Len(requests[2].ids) = 10
    /\ Len(requests[3].ids) = 1

(***************************************************************************)
(* C17.  With an entity filter set, every entry the change-log reader      *)
(* returns has that kind and every fetched entry of that kind is           *)
(* returned; with no filter set every fetched entry is returned.           *)
(***************************************************************************)
\* the positions of the feed whose entries the reader fetched
FetchedEntries ==
    {i \in 1..Len(feed) : \E k \in 1..Len(FeedBoards) : feed[i].board = FeedBoards[k]}

\* the fetched entries the filter lets through
Matching(filter) ==
    {i \in FetchedEntries : filter = NoFilter \/ feed[i].entity = filter}

Returned(i) ==
    \E k \in 1..Len(result) :
        /\ result[k].entity = feed[i].entity
        /\ result[k].data = feed[i].data
        /\ result[k].board_id = feed[i].board
        /\ result[k].created_at = _convert_activity_timestamp(feed[i].created_at)

C17_FilterKeepsExactlyTheKind ==
    pc = "filter_done" =>
        /\ arg # NoFilter => \A k \in 1..Len(result) : result[k].entity = arg
        /\ \A i \in Matching(arg) : Returned(i)
        /\ Len(result) = Cardinality(Matching(arg))

\* a feed of both kinds went through a filter that dropped one entry
C17_Witness ==
    /\ pc = "filter_done"
    /\ arg = "pulse"
    /\ Len(feed) = 2
    /\ Len(result) = 1
    /\ \E i \in 1..Len(feed) : feed[i].entity = "board"

(***************************************************************************)
(* C18.  The item-identifier extraction tries the keys pulse_id, item_id,  *)
(* id, pulseId, itemId in that order and returns the value of the first    *)
(* key present, as a string: {pulse_id: 55, board_id: 9} yields "55" and   *)
(* never the board_id, {itemId: 77} yields "77", a payload with none of    *)
(* the keys yields nothing.                                                *)
(***************************************************************************)
\* the payload of the one row-level entry the extraction was called on
Extracted == pc = "extract_done" /\ arg[1].entity = "pulse"

KeysOf(data) == IF data.shape = "dict" THEN DOMAIN data.d ELSE {}

\* key number i is present and no key before it is
FirstPresent(i, keys) ==
    /\ ID_KEYS[i] \in keys
    /\ \A j \in 1..(i - 1) : ID_KEYS[j] \notin keys

C18_FirstKeyWins ==
    Extracted =>
        LET keys == KeysOf(arg[1].data)
        IN  /\ \A i \in 1..Len(ID_KEYS) :
                   FirstPresent(i, keys) => result = {PayloadValue[ID_KEYS[i]]}
            /\ (\A i \in 1..Len(ID_KEYS) : ID_KEYS[i] \notin keys) => result = {}
            /\ PayloadValue["board_id"] \notin result
            /\ keys = {"pulse_id", "board_id", "event_id"} => result = {55}
            /\ keys = {"itemId", "event_id"} => result = {77}

\* a payload that holds a later key, an earlier key and the board_id
C18_Witness ==
    /\ Extracted
    /\ KeysOf(arg[1].data) = {"item_id", "itemId", "board_id", "event_id"}
    /\ arg[1].data.d["item_id"].json = "string"
    /\ result = {56}

(***************************************************************************)
(* C19.  Every entry the change-log reader returns carries the ID of the   *)
(* parent under which the feed returned it, and the identifiers extracted  *)
(* for parent-level changes are exactly the parent IDs attached to the     *)
(* entries of kind board, whatever their data contain.                     *)
(***************************************************************************)
\* the entries returned, in the order fetched: board by board
FetchedOrder ==
    LET OfBoard(k) == SelectSeq(feed, LAMBDA e : e.board = FeedBoards[k])
    IN  OfBoard(1) \o OfBoard(2)

KeptOrder ==
    SelectSeq(FetchedOrder, LAMBDA e : arg = NoFilter \/ e.entity = arg)

\* the reader's entries once returned
ReaderLogs == IF pc = "filter_done" THEN result ELSE all_logs

C19_ParentIdAttached ==
    /\ pc \in {"filter_done", "board_ids_done"} =>
           /\ Len(ReaderLogs) = Len(KeptOrder)
           /\ \A k \in 1..Len(ReaderLogs) :
                  /\ ReaderLogs[k].board_id = KeptOrder[k].board
                  /\ ReaderLogs[k].data = KeptOrder[k].data
    /\ pc = "board_ids_done" =>
           result = {feed[i].board :
                        i \in {j \in 1..Len(feed) : feed[j].entity = "board"}}

\* a board-level entry of board 11 whose data name board 9 gave 11
C19_Witness ==
    /\ pc = "board_ids_done"
    /\ result = {LOG_BATCH_SIZE + 1}
    /\ \E k \in 1..Len(all_logs) :
           /\ all_logs[k].entity = "board"
           /\ all_logs[k].data.shape = "dict"
           /\ "board_id" \in DOMAIN all_logs[k].data.d
           /\ str(all_logs[k].data.d["board_id"]) = 9

(***************************************************************************)
(* C20.  In an incremental pass every emitted record is the transform of   *)
(* a node that a re-fetch query of this pass returned for an identifier of *)
(* the extracted changed set; no record is built from a change-log         *)
(* payload, and an identifier the remote store no longer returns gives no  *)
(* record and no error.                                                    *)
(***************************************************************************)
ChangedSet == {changed_ids[k] : k \in 1..Len(changed_ids)}

\* the changed set the pass extracted from the entries it read
ExtractedSet ==
    IF table = "boards" THEN _extract_board_ids_from_logs(all_logs)
    ELSE _extract_item_ids_from_logs(all_logs)

\* an answered re-fetch query of this pass asked for identifier x
Refetched(x) ==
    \E i \in RequestsOf(RefetchKinds) :
        /\ responses[i].outcome = "ok"
        /\ \E k \in 1..Len(requests[i].ids) : requests[i].ids[k] = x

C20_RecordsComeFromRefetch ==
    (Done /\ IncrementalPass) =>
        /\ ChangedSet = ExtractedSet
        /\ \A k \in 1..Len(records) :
               /\ records[k].id \in ChangedSet
               /\ Refetched(records[k].id)
               /\ store[records[k].id].exists
               /\ records[k] = Transform([id |-> records[k].id,
                                           updated_at |-> store[records[k].id].updated_at])
        /\ \A x \in ChangedSet :
               (x \notin DOMAIN store \/ ~store[x].exists) => x \notin EmittedIds
        /\ \A k, l \in 1..Len(records) : records[k].id = records[l].id => k = l
        /\ error = "none"

\* of two changed items the store returned one: one record, no error
C20_Witness ==
    /\ Done /\ IncrementalPass /\ table = "items"
    /\ Cardinality(ChangedSet) = 2
    /\ \E x \in ChangedSet : ~store[x].exists /\ Refetched(x)
    /\ Len(records) = 1
    /\ error = "none"

(***************************************************************************)
(* C21.  As claimed: for every table the query of a batch of records is    *)
(* issued only after the consumer has pulled every record of the batches   *)
(* before it.  The consumer can pull nothing before the read has returned  *)
(* its sequence.                                                           *)
(***************************************************************************)
\* the queries whose answer is a batch of records of the table read
RecordKinds ==
    {"boards", "items_page", "next_items_page", "items_by_ids", "boards_by_ids"}
        \cup PlainTables

\* the number of records the consumer can have pulled so far
Pulled == IF returned THEN Len(records) ELSE 0

\* the records of the batches before the batch of the last query
EarlierBatches ==
    IF requests = <<>> THEN 0 ELSE SumSizes(RecordKinds, Len(requests) - 1)

C21_PullBased ==
    pc # "call" => Pulled >= EarlierBatches

(***************************************************************************)
(* C21, amended.  Record production is pull-based for the tables without   *)
(* cursor field (users, workspaces, teams, groups, tags, updates,          *)
(* activity_logs): the query of a batch is issued only after the consumer  *)
(* has pulled every record of the batches before it, every record answered *)
(* is pulled or waits to be pulled, and while a record waits no query is   *)
(* issued.  A read of boards or items issues all its queries before it     *)
(* returns its sequence, and none after.                                   *)
(***************************************************************************)
C21_PlainTablesPullBased ==
    /\ PlainPass =>
           /\ Len(records) >= EarlierBatches
           /\ Len(records) + Len(pending) = SumSizes(RecordKinds, Len(requests))
           /\ AtYield => ~ENABLED (generate_records \/ generate_teams
                                       \/ generate_nested)
    /\ (table \in {"boards", "items"} /\ returned) =>
           /\ pc = "done"
           /\ pending = <<>>

\* the consumer has pulled the full first page of a lazy table; the second
\* page was queried and its records wait
C21_Witness ==
    /\ PlainPass /\ table \in LazyPagedTables
    /\ Len(requests) = 2
    /\ responses[1].size = page_size
    /\ Len(records) = page_size
    /\ AtYield

(***************************************************************************)
(* C22.  A read of boards, items, users, workspaces or updates whose       *)
(* options carry no page_size requests its pages of records with the       *)
(* limit 50.                                                               *)
(***************************************************************************)
PageSizeTables == {"boards", "items", "users", "workspaces", "updates"}

\* the queries of the pages of records of the table read
PageKinds ==
    {"boards", "items_page", "next_items_page", "users", "workspaces", "updates"}

C22_DefaultPageSizeFifty ==
    (table \in PageSizeTables /\ options.page_size = {} /\ pc # "call") =>
        \A i \in RequestsOf(PageKinds) : requests[i].limit = 50

(***************************************************************************)
(* C23.  Called with a name outside the supported list, get_table_schema,  *)
(* read_table_metadata and read_table raise at once: no remote query is    *)
(* issued, no record, no checkpoint and no result is handed back.  Called  *)
(* with a supported name none of them raises the validation error, and     *)
(* the schema and the metadata returned are those of the table named.      *)
(***************************************************************************)
\* one of the three operations was called
Called == pc # "call"

ValidationRaised == pc \in {"schema_raised", "metadata_raised", "aborted"}

C23_ValidationFirst ==
    /\ (Called /\ table \notin SUPPORTED_TABLES) =>
           /\ ValidationRaised
           /\ error = "ValueError"
           /\ requests = <<>> /\ responses = <<>>
           /\ records = <<>> /\ pending = <<>>
           /\ ~returned /\ next_offset = {}
           /\ result = NoTs
    /\ (Called /\ table \in SUPPORTED_TABLES) =>
           /\ error # "ValueError"
           /\ pc \notin {"schema_raised", "metadata_raised"}
           /\ pc = "schema_done" => result = SchemaOf(table)
           /\ pc = "metadata_done" => result = MetadataOf(table)
           /\ (pc = "aborted") => requests # <<>>

\* a read of a name that differs from a supported one by its case has
\* raised, with a cursor in the checkpoint handed in
C23_Witness ==
    /\ table = "Boards"
    /\ pc = "aborted"
    /\ HasCursor(start_offset)
    /\ error = "ValueError"
    /\ requests = <<>>

(***************************************************************************)
(* C24.  No conversion raises: every raw entry gives a record, a raw       *)
(* timestamp that is not numeric gives 1970-01-01T00:00:00Z, an            *)
(* identifier field that is not numeric or is absent gives null, and the   *)
(* other entries of the list are converted as they are.                    *)
(***************************************************************************)
Converting == pc \in {"transform", "transform_done", "transform_raised"}

C24_ConversionNeverAborts ==
    Converting =>
        /\ pc # "transform_raised"
        /\ error = "none"
        /\ pc = "transform_done" => Len(result) = Len(arg.logs)
        /\ \A i \in 1..Len(result) :
               LET log == arg.logs[i]
               IN  /\ ~log.created_at.numeric => result[i].created_at = EPOCH
                   /\ log.created_at = RawTime(TimeStep)
                          => result[i].created_at = Iso(TimeStep)
                   /\ log.user_id \in {JsonText, JsonNull} => result[i].user_id = {}
                   /\ log.user_id \in {JsonNum(7), JsonStr(7)}
                          => result[i].user_id = {7}
                   /\ arg.board_id = JsonText => result[i].board_id = {}

(***************************************************************************)
(* C25.  A page-number traversal requests the pages 1, 2, 3, ... in that   *)
(* order, each once and all with the same page size; page n+1 is requested *)
(* only after page n was answered with a batch of exactly the page size;   *)
(* and every node of every answered batch is emitted once, in the order    *)
(* answered.                                                               *)
(***************************************************************************)
PageRequests == RequestsOf(PagedKinds)

SameTraversal(i, j) == requests[i].kind = requests[j].kind

\* the position of request i among the requests of its traversal
Rank(i) == Cardinality({j \in PageRequests : j <= i /\ SameTraversal(i, j)})

\* what the generator has yielded or holds ready to yield
Emitted == records \o pending

\* the read enumerates its table by page number
PagedEnumeration ==
    \/ table = "boards" /\ SnapshotPass
    \/ table \in LazyPagedTables

C25_PagesInOrder ==
    /\ \A i \in PageRequests :
           /\ requests[i].page = Rank(i)
           /\ \A j \in PageRequests :
                  SameTraversal(i, j) =>
                      /\ requests[j].limit = requests[i].limit
                      /\ requests[j].page = requests[i].page => i = j
                      /\ i < j => requests[i].page < requests[j].page
           /\ requests[i].page > 1 =>
                  /\ requests[i - 1].kind = requests[i].kind
                  /\ requests[i - 1].page = requests[i].page - 1
                  /\ responses[i - 1].outcome = "ok"
                  /\ responses[i - 1].size = requests[i - 1].limit
    /\ PagedEnumeration =>
           /\ Len(Emitted) = SumSizes({table}, Len(responses))
           /\ \A k \in 1..Len(Emitted) : Emitted[k].id = k
           /\ Done => pending = <<>>
    /\ /\ Len(board_ids) = SumSizes({"discover"}, Len(responses))
       /\ \A k \in 1..Len(board_ids) : board_ids[k] = k

\* three pages of two, two and one node were requested and emitted to the end
C25_Witness ==
    /\ Done /\ table \in LazyPagedTables
    /\ Len(requests) = 3
    /\ requests[3].page = 3 /\ requests[3].limit = 2
    /\ responses[1].size = 2 /\ responses[2].size = 2 /\ responses[3].size = 1
    /\ Len(records) = 5

(***************************************************************************)
(* C26.  A token traversal ends when the API stops handing out tokens: the *)
(* read of items by token reaches its end (or fails on a query), having    *)
(* emitted every node of every initial and follow-up batch once, in the    *)
(* order answered; every query of the traversal is the initial query or a  *)
(* follow-up by token, and none carries a page number.                     *)
(***************************************************************************)
Ended == pc \in {"done", "aborted"}

TokenTraversalSafe ==
    table = "items" =>
        /\ \A i \in 1..Len(requests) :
               /\ requests[i].kind \in TokenKinds
               /\ requests[i].page = 0
               /\ requests[i].kind = "next_items_page" => requests[i].token # {}
               /\ requests[i].kind = "items_page" => requests[i].token = {}
        /\ Len(records) = SumSizes(TokenKinds, Len(responses))
        /\ \A k \in 1..Len(records) : records[k].id = k
        /\ pc = "aborted" => responses[Len(responses)].outcome \in Faults
        /\ Done => token = {}

C26_TokenTraversalTerminates == []TokenTraversalSafe /\ <>Ended

\* one parent was read by an initial query and two follow-ups, the last
\* answer without token: both nodes of the store were emitted
C26_Witness ==
    /\ Done /\ table = "items"
    /\ Len(board_ids) = 1
    /\ Len(requests) = 3
    /\ requests[2].kind = "next_items_page"
    /\ requests[3].kind = "next_items_page"
    /\ responses[3].token = {}
    /\ Len(records) = 2

(***************************************************************************)
(* C27.  The item-identifier extraction never raises: it skips every entry *)
(* whose kind is not pulse, whose data are empty, or whose data do not     *)
(* parse to a mapping, and returns exactly the identifiers of the other    *)
(* entries of the list.                                                    *)
(***************************************************************************)
ExtractionCalled == pc \in {"extract_done", "extract_raised"}

\* the entry is one the extraction has to skip
Skipped(e) == e.entity # "pulse" \/ e.data.shape # "dict"

\* the identifier a row-level entry with a mapping names, if it names one
NamedBy(e) ==
    {PayloadValue[ID_KEYS[i]] : i \in {j \in 1..Len(ID_KEYS) :
                                          FirstPresent(j, DOMAIN e.data.d)}}

C27_SkipsWithoutRaising ==
    ExtractionCalled =>
        /\ pc = "extract_done"
        /\ error = "none"
        /\ \A i \in 1..Len(arg) : ~Skipped(arg[i]) => NamedBy(arg[i]) \subseteq result
        /\ \A x \in result :
               \E i \in 1..Len(arg) : ~Skipped(arg[i]) /\ x \in NamedBy(arg[i])

(***************************************************************************)
(* C28.  Every extracted identifier is the value of the first candidate    *)
(* key present in a row-level entry; an entry that holds board_id and      *)
(* pulse_id gives the pulse_id and nothing besides, whatever other keys it *)
(* holds; so the result has at most one identifier for each matching       *)
(* entry.                                                                  *)
(***************************************************************************)
\* the row-level entries whose data are a mapping
MatchingEntries == {i \in 1..Len(arg) : ~Skipped(arg[i])}

HoldsCombination(e) == {"board_id", "pulse_id"} \subseteq DOMAIN e.data.d

C28_AtMostOnePerEntry ==
    pc = "extract_done" =>
        /\ \A x \in result : \E i \in MatchingEntries : NamedBy(arg[i]) = {x}
        /\ Cardinality(result) <= Cardinality(MatchingEntries)
        /\ \A i \in MatchingEntries :
               /\ Cardinality(NamedBy(arg[i]) \cap result) <= 1
               /\ HoldsCombination(arg[i]) => PayloadValue["pulse_id"] \in result
        /\ PayloadValue["board_id"] \notin result
        /\ (\A i \in MatchingEntries : HoldsCombination(arg[i]))
               => result \subseteq {PayloadValue["pulse_id"]}

\* two entries hold the combination, one of them an item_id too: one
\* identifier, the pulse_id
C28_Witness ==
    /\ pc = "extract_done"
    /\ Len(arg) = 2
    /\ HoldsCombination(arg[1]) /\ HoldsCombination(arg[2])
    /\ "item_id" \in DOMAIN arg[1].data.d
    /\ arg[1].entity = "pulse" /\ arg[2].entity = "pulse"
    /\ result = {55}

(***************************************************************************)
(* C29.  An incremental pass that was handed a cursor c of the fixed       *)
(* format and returns a cursor returns c itself when it read no entry of   *)
(* its kind; otherwise it returns the maximum m of c, the log timestamps   *)
(* and the updated_at of the re-fetched records, moved back by 60 seconds  *)
(* when m has the fixed format and as it is when not.  m is at least c,    *)
(* and the returned cursor is at most 60 seconds before c.                 *)
(***************************************************************************)
\* t moved back by the lookback window, t unchanged when it does not parse
MovedBack(t) == IF t.fmt = "iso" THEN Iso(t.sec - 60) ELSE t

\* the maximum the pass ends with
PassMaximum ==
    CHOOSE m \in start_offset \cup ObservedCdc :
        IsLargest(m, start_offset \cup ObservedCdc)

C29_CursorFloor ==
    (Done /\ IncrementalPass /\ CursorOf(start_offset).fmt = "iso"
          /\ HasCursor(next_offset)) =>
        LET c == CursorOf(start_offset)
        IN  /\ all_logs = <<>> => CursorOf(next_offset) = c
            /\ all_logs # <<>> =>
                   /\ TsGeq(PassMaximum, c)
                   /\ CursorOf(next_offset) = MovedBack(PassMaximum)
            /\ CursorOf(next_offset).sec >= c.sec - 60
            /\ Cardinality(next_offset) = 1

\* every timestamp the pass saw was earlier than its cursor: the cursor
\* went back by the lookback window and no further
C29_Witness ==
    /\ Done /\ IncrementalPass /\ CursorOf(start_offset).fmt = "iso"
    /\ all_logs # <<>> /\ records # <<>>
    /\ \A x \in ObservedCdc : TsGreater(CursorOf(start_offset), x)
    /\ CursorOf(next_offset) = Iso(CursorOf(start_offset).sec - 60)

(***************************************************************************)
(* C30.  Replaying is stable over a quiescent remote store: when the       *)
(* remote data does not change and every query succeeds, incremental       *)
(* passes that are each fed the checkpoint the pass before returned reach  *)
(* a fixed checkpoint after finitely many passes: from some pass on the    *)
(* cursor handed to read_table never changes again.                        *)
(***************************************************************************)
C30_ReplayReachesFixedPoint == <>[][start_offset' = start_offset]_start_offset

(***************************************************************************)
(* C31.  An incremental read never loses the cursor: for boards and items, *)
(* whenever the checkpoint handed in carries a cursor and the read         *)
(* completes without error, the checkpoint it returns carries a cursor     *)
(* too, also when no board is configured or discovered.                    *)
(***************************************************************************)
C31_CursorNeverLost ==
    (Done /\ IncrementalPass /\ error = "none") => HasCursor(next_offset)

(***************************************************************************)
(* C32.  In a snapshot of items over several boards the boards are         *)
(* traversed one after another in the given order: the k-th initial        *)
(* request names the k-th board and is issued only after the traversal of  *)
(* the board before it ended with a null token.  Every item served is      *)
(* emitted, in the order served, and a snapshot that returns has traversed *)
(* every board and returns the lookback of the largest updated_at over the *)
(* items of all boards.                                                    *)
(***************************************************************************)
InitialRequests == RequestsOf({"items_page"})

\* the number of the board whose traversal request i belongs to
ParentAt(i) == Cardinality({j \in InitialRequests : j <= i})

C32_ParentsInTurn ==
    (table = "items" /\ SnapshotPass) =>
        /\ \A i \in InitialRequests :
               /\ ParentAt(i) <= Len(board_ids)
               /\ requests[i].ids = <<board_ids[ParentAt(i)]>>
               /\ i > 1 => /\ responses[i - 1].outcome = "ok"
                           /\ responses[i - 1].token = {}
        /\ \A i \in RequestsOf({"next_items_page"}) :
               /\ ParentAt(i) >= 1
               /\ responses[i - 1].token # {}
        /\ Len(records) = SumSizes(TokenKinds, Len(responses))
        /\ \A i \in 1..Len(records) : records[i].id = i
        /\ Done =>
               /\ Cardinality(InitialRequests) = Len(board_ids)
               /\ \A m \in AboveSentinel(UpdatedAtsOf(records)) :
                      IsLargest(m, UpdatedAtsOf(records))
                          => next_offset = {_apply_lookback(m)}
               /\ AboveSentinel(UpdatedAtsOf(records)) = {} => next_offset = {}

\* two boards, the first traversed with a follow-up request; the newest
\* item came with the first board and an older one with the second
C32_Witness ==
    /\ Done /\ table = "items" /\ SnapshotPass
    /\ Len(board_ids) = 2
    /\ Len(records) = 2
    /\ \E i \in InitialRequests :
           /\ ParentAt(i) = 2
           /\ i > 2
           /\ SumSizes(TokenKinds, i - 1) = 1
    /\ TsGreater(records[2].updated_at, EPOCH)
    /\ TsGreater(records[1].updated_at, records[2].updated_at)
    /\ next_offset = {_apply_lookback(records[1].updated_at)}

=============================================================================
